---- MODULE Spec2Model ----
(***************************************************************************)
(* A model of the saruta HTTP router (catatsuy/saruta): the pattern        *)
(* compiler (pattern.go), the validating trie and the compacted radix tree *)
(* with its matcher (radix.go), and the Router's registration, Compile and *)
(* ServeHTTP (router.go).                                                  *)
(*                                                                         *)
(* Go strings are sequences of one-character strings; Go's 0-based byte    *)
(* offsets are kept (At, Slice, From translate them), so positions in the  *)
(* model are the positions of the source.                                  *)
(***************************************************************************)
EXTENDS Integers, Sequences, FiniteSets, TLC

(***************************************************************************)
(* Bytes and strings                                                       *)
(***************************************************************************)

\* The bytes that occur in patterns, paths, methods and header values, in
\* ascending byte (ASCII) order.
Alphabet ==
  << " ", "*", "+", ",", "-", ".", "/",
     "0", "1", "2", "3", "4", "5", "6", "7", "8", "9", ":",
     "A", "B", "C", "D", "E", "F", "G", "H", "I", "J", "K", "L", "M",
     "N", "O", "P", "Q", "R", "S", "T", "U", "V", "W", "X", "Y", "Z",
     "[", "\\", "]", "_",
     "a", "b", "c", "d", "e", "f", "g", "h", "i", "j", "k", "l", "m",
     "n", "o", "p", "q", "r", "s", "t", "u", "v", "w", "x", "y", "z",
     "{", "}" >>

Byte == { Alphabet[i] : i \in 1..Len(Alphabet) }

\* The rank of a byte in byte order.
Ord == [ c \in Byte |-> CHOOSE i \in 1..Len(Alphabet) : Alphabet[i] = c ]

Digits == { "0", "1", "2", "3", "4", "5", "6", "7", "8", "9" }

Lower == { c \in Byte : Ord[c] >= Ord["a"] /\ Ord[c] <= Ord["z"] }

Upper == { c \in Byte : Ord[c] >= Ord["A"] /\ Ord[c] <= Ord["Z"] }

\* s[i] of Go.
At(s, i) == s[i + 1]

\* s[lo:hi] of Go.
Slice(s, lo, hi) == SubSeq(s, lo + 1, hi)

\* s[lo:] of Go.
From(s, lo) == SubSeq(s, lo + 1, Len(s))

HasPrefix(s, p) == Len(p) <= Len(s) /\ SubSeq(s, 1, Len(p)) = p

HasSuffix(s, p) == Len(p) <= Len(s) /\ SubSeq(s, Len(s) - Len(p) + 1, Len(s)) = p

\* strings.Contains(s, c) for a one-byte c.
ContainsByte(s, c) == \E i \in 1..Len(s) : s[i] = c

\* strings.IndexByte: the 0-based offset of the first c, or -1.
IndexByte(s, c) ==
  IF ContainsByte(s, c)
    THEN (CHOOSE i \in 1..Len(s) : s[i] = c /\ \A k \in 1..(i - 1) : s[k] # c) - 1
    ELSE -1

\* a < b of Go strings: bytewise lexicographic order.
RECURSIVE StrLess(_, _)
StrLess(a, b) ==
  IF b = << >> THEN FALSE
  ELSE IF a = << >> THEN TRUE
  ELSE IF Head(a) # Head(b) THEN Ord[Head(a)] < Ord[Head(b)]
  ELSE StrLess(Tail(a), Tail(b))

RECURSIVE longestCommonPrefix(_, _)
longestCommonPrefix(a, b) ==
  IF a # << >> /\ b # << >> /\ Head(a) = Head(b)
    THEN 1 + longestCommonPrefix(Tail(a), Tail(b))
    ELSE 0

\* strings.Split(s, "/").
RECURSIVE SplitSlash(_)
SplitSlash(s) ==
  LET i == IndexByte(s, "/")
  IN  IF i < 0 THEN << s >>
      ELSE << Slice(s, 0, i) >> \o SplitSlash(From(s, i + 1))

Dots == << ".", ".", "." >>

(***************************************************************************)
(* pattern.go: the pattern compiler                                        *)
(***************************************************************************)

segmentStatic == "static"

segmentParam == "param"

segmentCatchAll == "catchAll"

\* A nil error, a nil matcher, a nil template.
NoErr == "nil"

NoMatcher == [ nil |-> TRUE ]

NoTmpl == [ nil |-> TRUE ]

\* The zero segment{}; parseSegment fills in what it sets.
ZeroSegment ==
  [ kind |-> segmentStatic, literal |-> << >>, name |-> << >>, expr |-> << >>,
    prefix |-> << >>, suffix |-> << >>, matcher |-> NoMatcher, tmpl |-> NoTmpl ]

\* byteClassMatcher.Match.
Match(m, seg) ==
  /\ Len(seg) >= m.minLen
  /\ \A i \in 1..Len(seg) : seg[i] \in m.allow

newByteClassMatcher(chars, minLen) == [ allow |-> chars, minLen |-> minLen ]

\* readClassAtom: [err, ch, next].
readClassAtom(s, i) ==
  IF i >= Len(s) THEN [ err |-> "unexpected end of character class", ch |-> "", next |-> i ]
  ELSE IF At(s, i) # "\\" THEN [ err |-> NoErr, ch |-> At(s, i), next |-> i + 1 ]
  ELSE IF i + 1 >= Len(s) THEN [ err |-> "dangling escape in character class", ch |-> "", next |-> i ]
  ELSE IF At(s, i + 1) = "d" THEN [ err |-> "\\d is not supported inside character class", ch |-> "", next |-> i ]
  ELSE [ err |-> NoErr, ch |-> At(s, i + 1), next |-> i + 2 ]

\* parseByteClass: [err, bytes].  The loop runs from offset i with the bytes
\* gathered so far; a is the atom read at i, e the end of a range a-e.
RECURSIVE parseByteClassLoop(_, _, _)
RECURSIVE parseByteClassAtom(_, _, _)
RECURSIVE parseByteClassRange(_, _, _, _)

parseByteClassLoop(class, i, out) ==
  IF i >= Len(class) THEN [ err |-> NoErr, bytes |-> out ]
  ELSE parseByteClassAtom(class, out, readClassAtom(class, i))

parseByteClassAtom(class, out, a) ==
  IF a.err # NoErr THEN [ err |-> a.err, bytes |-> {} ]
  ELSE IF a.next + 1 < Len(class) /\ At(class, a.next) = "-"
    THEN parseByteClassRange(class, out, a, readClassAtom(class, a.next + 1))
  ELSE parseByteClassLoop(class, a.next, out \cup { a.ch })

parseByteClassRange(class, out, a, e) ==
  IF e.err # NoErr THEN [ err |-> e.err, bytes |-> {} ]
  ELSE IF Ord[a.ch] > Ord[e.ch] THEN [ err |-> "invalid range", bytes |-> {} ]
  ELSE parseByteClassLoop(class, e.next,
         out \cup { c \in Byte : Ord[a.ch] <= Ord[c] /\ Ord[c] <= Ord[e.ch] })

parseByteClass(class) ==
  IF class = << >> THEN [ err |-> "empty character class", bytes |-> {} ]
  ELSE parseByteClassLoop(class, 0, {})

\* The end of compileSegmentExpr: the matcher of the parsed class cls.
classMatcher(cls, minLen) ==
  IF cls.err # NoErr THEN [ err |-> cls.err, matcher |-> NoMatcher ]
  ELSE [ err |-> NoErr, matcher |-> newByteClassMatcher(cls.bytes, minLen) ]

\* compileSegmentExpr for a [class] expression; end is the offset of "]".
compileClassExpr(expr, n, end) ==
  IF n < 2 \/ At(expr, 0) # "[" THEN [ err |-> "unsupported expression", matcher |-> NoMatcher ]
  ELSE IF end <= 0 THEN [ err |-> "unterminated character class", matcher |-> NoMatcher ]
  ELSE IF end # n - 1 /\ end # n - 2
    THEN [ err |-> "unsupported expression", matcher |-> NoMatcher ]
  ELSE IF end = n - 2 /\ At(expr, n - 1) \notin { "+", "*" }
    THEN [ err |-> "unsupported quantifier", matcher |-> NoMatcher ]
  ELSE classMatcher(parseByteClass(Slice(expr, 1, end)),
                    IF end = n - 2 /\ At(expr, n - 1) = "*" THEN 0 ELSE 1)

\* compileSegmentExpr: [err, matcher].
compileSegmentExpr(expr) ==
  IF expr = << "\\", "d" >> THEN [ err |-> NoErr, matcher |-> newByteClassMatcher(Digits, 1) ]
  ELSE IF expr = << "\\", "d", "+" >>
    THEN [ err |-> NoErr, matcher |-> newByteClassMatcher(Digits, 1) ]
  ELSE IF expr = << "\\", "d", "*" >>
    THEN [ err |-> NoErr, matcher |-> newByteClassMatcher(Digits, 0) ]
  ELSE compileClassExpr(expr, Len(expr), IndexByte(expr, "]"))

\* validateParamName: the error, or NoErr.
validateParamName(name) ==
  IF name = << >> THEN "empty parameter name"
  ELSE IF \A i \in 1..Len(name) :
            \/ name[i] \in Lower
            \/ name[i] \in Upper
            \/ name[i] = "_"
            \/ (i > 1 /\ name[i] \in Digits)
    THEN NoErr
    ELSE "invalid parameter name"

NoTemplateParam == [ name |-> << >>, expr |-> << >>, matcher |-> NoMatcher ]

\* The end of parseSegmentParam: cm is what compileSegmentExpr returned (no
\* error and no matcher when there is no expression), nameErr what
\* validateParamName returned.
templateParam(name, expr, cm, nameErr) ==
  IF cm.err # NoErr THEN [ err |-> "invalid matcher for parameter", p |-> NoTemplateParam ]
  ELSE IF nameErr # NoErr THEN [ err |-> nameErr, p |-> NoTemplateParam ]
  ELSE [ err |-> NoErr, p |-> [ name |-> name, expr |-> expr, matcher |-> cm.matcher ] ]

\* parseSegmentParam after strings.Cut(body, ":"); colon is the offset of the
\* first ":" or -1.
parseSegmentParamCut(body, colon) ==
  IF colon < 0
    THEN templateParam(body, << >>, [ err |-> NoErr, matcher |-> NoMatcher ],
                       validateParamName(body))
  ELSE IF From(body, colon + 1) = << >>
    THEN [ err |-> "empty parameter expression", p |-> NoTemplateParam ]
  ELSE templateParam(Slice(body, 0, colon), From(body, colon + 1),
                     compileSegmentExpr(From(body, colon + 1)),
                     validateParamName(Slice(body, 0, colon)))

\* parseSegmentParam: [err, p] with p a templateParam [name, expr, matcher].
parseSegmentParam(body) == parseSegmentParamCut(body, IndexByte(body, ":"))

\* The catch-all segment parseParamBody returns.
catchAllSegment(name, nameErr) ==
  IF nameErr # NoErr THEN [ err |-> nameErr, seg |-> ZeroSegment ]
  ELSE [ err |-> NoErr, seg |-> [ ZeroSegment EXCEPT !.kind = segmentCatchAll, !.name = name ] ]

\* The parameter segment parseParamBody returns, r being what
\* parseSegmentParam returned.
paramSegment(prefix, suffix, r) ==
  IF r.err # NoErr THEN [ err |-> r.err, seg |-> ZeroSegment ]
  ELSE [ err |-> NoErr,
         seg |-> [ ZeroSegment EXCEPT
                     !.kind = segmentParam, !.name = r.p.name, !.expr = r.p.expr,
                     !.prefix = prefix, !.suffix = suffix, !.matcher = r.p.matcher,
                     !.tmpl = [ literals |-> << prefix, suffix >>, params |-> << r.p >> ] ] ]

\* parseParamBody: [err, seg].
parseParamBody(body, prefix, suffix) ==
  IF HasSuffix(body, Dots)
    THEN IF prefix # << >> \/ suffix # << >>
           THEN [ err |-> "catch-all cannot have static prefix/suffix in segment",
                  seg |-> ZeroSegment ]
         ELSE IF ContainsByte(body, ":")
           THEN [ err |-> "regex catch-all parameters are not supported yet",
                  seg |-> ZeroSegment ]
         ELSE catchAllSegment(Slice(body, 0, Len(body) - 3),
                              validateParamName(Slice(body, 0, Len(body) - 3)))
    ELSE paramSegment(prefix, suffix, parseSegmentParam(body))

\* The end of parseSegment, after its scan of the raw segment.
parseSegmentFinish(literals, params) ==
  IF Len(params) = 0 THEN [ err |-> "invalid segment syntax", seg |-> ZeroSegment ]
  ELSE IF \E i \in 1..(Len(literals) - 2) : At(literals, i) = << >>
    THEN [ err |-> "adjacent parameters in one segment are not supported",
           seg |-> ZeroSegment ]
  ELSE IF Len(params) = 1
    THEN [ err |-> NoErr,
           seg |-> [ ZeroSegment EXCEPT
                       !.kind = segmentParam,
                       !.tmpl = [ literals |-> literals, params |-> params ],
                       !.name = params[1].name, !.expr = params[1].expr,
                       !.matcher = params[1].matcher,
                       !.prefix = At(literals, 0), !.suffix = At(literals, 1) ] ]
  ELSE [ err |-> NoErr,
         seg |-> [ ZeroSegment EXCEPT
                     !.kind = segmentParam,
                     !.tmpl = [ literals |-> literals, params |-> params ] ] ]

\* The scan of parseSegment: i is the loop index, last the end of the
\* previous parameter span.  parseSegmentBrace is the case '{' with j the
\* offset of the closing brace (i when there is none), parseSegmentSpan what
\* follows parseSegmentParam's answer r for the span.
RECURSIVE parseSegmentLoop(_, _, _, _, _)
RECURSIVE parseSegmentBrace(_, _, _, _, _, _)
RECURSIVE parseSegmentSpan(_, _, _, _, _, _, _)

parseSegmentLoop(raw, i, last, literals, params) ==
  IF i >= Len(raw) THEN parseSegmentFinish(Append(literals, From(raw, last)), params)
  ELSE IF At(raw, i) = "}" THEN [ err |-> "invalid segment syntax", seg |-> ZeroSegment ]
  ELSE IF At(raw, i) = "{"
    THEN parseSegmentBrace(raw, i, last, literals, params,
                           i + 1 + IndexByte(From(raw, i + 1), "}"))
  ELSE parseSegmentLoop(raw, i + 1, last, literals, params)

parseSegmentBrace(raw, i, last, literals, params, j) ==
  IF j < i + 1 THEN [ err |-> "invalid segment syntax", seg |-> ZeroSegment ]
  ELSE IF ContainsByte(Slice(raw, i + 1, j), "{")
    THEN [ err |-> "invalid segment syntax", seg |-> ZeroSegment ]
  ELSE IF Slice(raw, i + 1, j) = << >>
    THEN [ err |-> "empty parameter name", seg |-> ZeroSegment ]
  ELSE IF HasSuffix(Slice(raw, i + 1, j), Dots)
    THEN IF Len(params) > 0 \/ i # 0 \/ j # Len(raw) - 1
           THEN [ err |-> "catch-all cannot have static prefix/suffix in segment",
                  seg |-> ZeroSegment ]
           ELSE parseParamBody(Slice(raw, i + 1, j), << >>, << >>)
  ELSE parseSegmentSpan(raw, i, last, literals, params, j,
                        parseSegmentParam(Slice(raw, i + 1, j)))

parseSegmentSpan(raw, i, last, literals, params, j, r) ==
  IF r.err # NoErr THEN [ err |-> r.err, seg |-> ZeroSegment ]
  ELSE parseSegmentLoop(raw, j + 1, j + 1,
                        Append(literals, Slice(raw, last, i)), Append(params, r.p))

\* parseSegment: [err, seg].
parseSegment(raw) ==
  IF raw = << >> THEN [ err |-> NoErr, seg |-> ZeroSegment ]
  ELSE IF ~ContainsByte(raw, "{") /\ ~ContainsByte(raw, "}")
    THEN [ err |-> NoErr, seg |-> [ ZeroSegment EXCEPT !.literal = raw ] ]
  ELSE parseSegmentLoop(raw, 0, 0, << >>, << >>)

\* splitPathSegments trimming a trailing "/" before the split.
splitPathSegmentsTrimmed(path) ==
  IF path = << "/" >> THEN << >>
  ELSE IF At(path, Len(path) - 1) = "/" THEN SplitSlash(Slice(path, 1, Len(path) - 1))
  ELSE SplitSlash(From(path, 1))

splitPathSegments(path) ==
  IF path = << "/" >> THEN << >> ELSE SplitSlash(From(path, 1))

\* The loop of compilePattern over the raw segments; compilePatternSegment
\* is its body for segment i, r being what parseSegment returned for it.
RECURSIVE compilePatternLoop(_, _, _)
RECURSIVE compilePatternSegment(_, _, _, _)

compilePatternLoop(rawSegs, i, segments) ==
  IF i >= Len(rawSegs) THEN [ err |-> NoErr, segments |-> segments ]
  ELSE compilePatternSegment(rawSegs, i, segments, parseSegment(At(rawSegs, i)))

\* The body of compilePattern's loop without the test that a catch-all is
\* the last segment.
compilePatternSegmentAnywhere(rawSegs, i, segments, r) ==
  IF r.err # NoErr THEN [ err |-> r.err, segments |-> << >> ]
  ELSE compilePatternLoop(rawSegs, i + 1, Append(segments, r.seg))

compilePatternSegment(rawSegs, i, segments, r) ==
  IF r.err # NoErr THEN [ err |-> r.err, segments |-> << >> ]
  ELSE IF r.seg.kind = segmentCatchAll /\ i # Len(rawSegs) - 1
    THEN [ err |-> "catch-all must be the last segment", segments |-> << >> ]
  ELSE compilePatternLoop(rawSegs, i + 1, Append(segments, r.seg))

\* compilePattern: [err, segments].
compilePattern(pattern) ==
  IF pattern = << >> THEN [ err |-> "invalid pattern: empty pattern", segments |-> << >> ]
  ELSE IF At(pattern, 0) # "/"
    THEN [ err |-> "invalid pattern: must start with '/'", segments |-> << >> ]
  ELSE IF pattern = << "/" >> THEN [ err |-> NoErr, segments |-> << >> ]
  ELSE compilePatternLoop(splitPathSegments(pattern), 0, << >>)

(***************************************************************************)
(* radix.go: the validating trie                                           *)
(***************************************************************************)

\* A nil http.Handler, a nil *paramEdge, a nil map of handlers.
NoHandler == [ nil |-> TRUE ]

NoEdge == [ nil |-> TRUE ]

NoHandlers == << >>

\* The pathParam{} zero value and the capacity of routeMatch.params.
ZeroParam == [ name |-> << >>, value |-> << >> ]

ParamCap == 8

newNode ==
  [ staticChildren |-> << >>, paramChild |-> NoEdge, catchAllChild |-> NoEdge,
    handlers |-> NoHandlers, mount |-> NoHandler ]

\* f with f[k] set to v (a Go map assignment).
MapPut(f, k, v) == [ x \in (DOMAIN f) \cup { k } |-> IF x = k THEN v ELSE f[x] ]

\* The terminal part of insertRoute without the test for an existing
\* handler: the later registration replaces the earlier one.
insertRouteTerminalOverwriting(cur, method, h) ==
  [ err |-> NoErr, node |-> [ cur EXCEPT !.handlers = MapPut(cur.handlers, method, h) ] ]

\* The terminal part of insertRoute: the handler is stored under its method.
insertRouteTerminal(cur, method, h) ==
  IF method \in DOMAIN cur.handlers
    THEN [ err |-> "duplicate route", node |-> cur ]
    ELSE [ err |-> NoErr, node |-> [ cur EXCEPT !.handlers = MapPut(cur.handlers, method, h) ] ]

\* The conflict test of insertRoute with the name alone.
paramConflictByName(pe, seg) == pe.name # seg.name

\* insertRoute's test of a parameter segment against the existing edge.
paramConflict(pe, seg) ==
  \/ pe.name # seg.name
  \/ pe.expr # seg.expr
  \/ pe.prefix # seg.prefix
  \/ pe.suffix # seg.suffix

\* node.insertRoute from segment i (0-based) on: [err, node], node being cur
\* after the insertion.
RECURSIVE insertRouteAt(_, _, _, _, _)
insertRouteAt(cur, segments, i, method, h) ==
  IF i >= Len(segments) THEN insertRouteTerminal(cur, method, h)
  ELSE
    LET seg == At(segments, i)
    IN  CASE seg.kind = segmentStatic ->
               LET next == IF seg.literal \in DOMAIN cur.staticChildren
                             THEN cur.staticChildren[seg.literal] ELSE newNode
                   r    == insertRouteAt(next, segments, i + 1, method, h)
               IN  IF r.err # NoErr THEN [ err |-> r.err, node |-> cur ]
                   ELSE [ err |-> NoErr,
                          node |-> [ cur EXCEPT !.staticChildren =
                                       MapPut(cur.staticChildren, seg.literal, r.node) ] ]
          [] seg.kind = segmentParam ->
               LET pe == IF cur.paramChild = NoEdge
                           THEN [ name |-> seg.name, expr |-> seg.expr, prefix |-> seg.prefix,
                                  suffix |-> seg.suffix, matcher |-> seg.matcher, next |-> newNode ]
                           ELSE cur.paramChild
                   r  == insertRouteAt(pe.next, segments, i + 1, method, h)
               IN  IF paramConflict(pe, seg)
                     THEN [ err |-> "route conflict: existing parameter", node |-> cur ]
                   ELSE IF r.err # NoErr THEN [ err |-> r.err, node |-> cur ]
                   ELSE [ err |-> NoErr,
                          node |-> [ cur EXCEPT !.paramChild = [ pe EXCEPT !.next = r.node ] ] ]
          [] seg.kind = segmentCatchAll ->
               LET pe == IF cur.catchAllChild = NoEdge
                           THEN [ name |-> seg.name, expr |-> seg.expr, prefix |-> << >>,
                                  suffix |-> << >>, matcher |-> seg.matcher, next |-> newNode ]
                           ELSE cur.catchAllChild
                   r  == insertRouteAt(pe.next, segments, i + 1, method, h)
               IN  IF pe.name # seg.name
                     THEN [ err |-> "route conflict: existing catch-all", node |-> cur ]
                   ELSE IF r.err # NoErr THEN [ err |-> r.err, node |-> cur ]
                   ELSE [ err |-> NoErr,
                          node |-> [ cur EXCEPT !.catchAllChild = [ pe EXCEPT !.next = r.node ] ] ]
          [] OTHER -> [ err |-> "unknown segment kind", node |-> cur ]

insertRoute(n, method, cp, h) == insertRouteAt(n, cp.segments, 0, method, h)

\* node.insertMount from segment i on.
RECURSIVE insertMountAt(_, _, _, _)
insertMountAt(cur, segments, i, h) ==
  IF i >= Len(segments)
    THEN IF cur.mount # NoHandler THEN [ err |-> "duplicate mount", node |-> cur ]
         ELSE [ err |-> NoErr, node |-> [ cur EXCEPT !.mount = h ] ]
  ELSE
    LET seg  == At(segments, i)
        next == IF seg.literal \in DOMAIN cur.staticChildren
                  THEN cur.staticChildren[seg.literal] ELSE newNode
        r    == insertMountAt(next, segments, i + 1, h)
    IN  IF seg.kind # segmentStatic
          THEN [ err |-> "invalid mount prefix: prefix must be a static path", node |-> cur ]
        ELSE IF r.err # NoErr THEN [ err |-> r.err, node |-> cur ]
        ELSE [ err |-> NoErr,
               node |-> [ cur EXCEPT !.staticChildren =
                            MapPut(cur.staticChildren, seg.literal, r.node) ] ]

insertMount(n, cp, h) == insertMountAt(n, cp.segments, 0, h)

storeParam(params, count, p) ==
  IF count >= Len(params)
    THEN [ count |-> count, ok |-> FALSE, params |-> params ]
    ELSE [ count |-> count + 1, ok |-> TRUE, params |-> [ params EXCEPT ![count + 1] = p ] ]

\* matchParamSegment without the test of the suffix.
matchParamSegmentPrefixOnly(seg, prefix, suffix, matcher) ==
  LET value == Slice(seg, Len(prefix), Len(seg) - Len(suffix))
  IN  IF Len(seg) < Len(prefix) + Len(suffix) THEN [ ok |-> FALSE, value |-> << >> ]
      ELSE IF prefix # << >> /\ ~HasPrefix(seg, prefix) THEN [ ok |-> FALSE, value |-> << >> ]
      ELSE IF matcher # NoMatcher /\ ~Match(matcher, value) THEN [ ok |-> FALSE, value |-> << >> ]
      ELSE [ ok |-> TRUE, value |-> value ]

\* matchParamSegment: [ok, value].
matchParamSegment(seg, prefix, suffix, matcher) ==
  LET value == Slice(seg, Len(prefix), Len(seg) - Len(suffix))
  IN  IF Len(seg) < Len(prefix) + Len(suffix) THEN [ ok |-> FALSE, value |-> << >> ]
      ELSE IF prefix # << >> /\ ~HasPrefix(seg, prefix) THEN [ ok |-> FALSE, value |-> << >> ]
      ELSE IF suffix # << >> /\ ~HasSuffix(seg, suffix) THEN [ ok |-> FALSE, value |-> << >> ]
      ELSE IF matcher # NoMatcher /\ ~Match(matcher, value) THEN [ ok |-> FALSE, value |-> << >> ]
      ELSE [ ok |-> TRUE, value |-> value ]

\* The strings of S in descending order: an order the range over the map
\* can produce and a missing sort.Strings would leave.
RECURSIVE SortStringsDescending(_)
SortStringsDescending(S) ==
  IF S = {} THEN << >>
  ELSE LET m == CHOOSE x \in S : \A y \in S \ { x } : StrLess(y, x)
       IN  << m >> \o SortStringsDescending(S \ { m })

\* sort.Strings of a set of distinct strings.
RECURSIVE SortStrings(_)
SortStrings(S) ==
  IF S = {} THEN << >>
  ELSE LET m == CHOOSE x \in S : \A y \in S \ { x } : StrLess(x, y)
       IN  << m >> \o SortStrings(S \ { m })

\* strings.Join(ss, ", ").
RECURSIVE JoinCommaSpace(_)
JoinCommaSpace(ss) ==
  IF ss = << >> THEN << >>
  ELSE IF Len(ss) = 1 THEN ss[1]
  ELSE ss[1] \o << ",", " " >> \o JoinCommaSpace(Tail(ss))

allowHeaderValue(handlers) ==
  IF DOMAIN handlers = {} THEN << >>
  ELSE JoinCommaSpace(SortStrings(DOMAIN handlers))

(***************************************************************************)
(* radix.go: compaction of the trie into the radix tree                    *)
(***************************************************************************)

\* A nil *radixStaticEdge.
NoStaticEdge == [ nil |-> TRUE ]

\* The radixNode{} zero value.  staticEdgeIndex holds only the bytes whose
\* entry is not 0, each with its entry (index+1).
ZeroRadixNode ==
  [ staticEdges |-> << >>, staticEdgeIndex |-> << >>, paramChild |-> NoEdge,
    catchAllChild |-> NoEdge, handlers |-> NoHandlers, mount |-> NoHandler ]

\* compressStaticChain: [label, end], from the label built so far and the
\* node reached.  A node left by the loop has exactly one static child.
RECURSIVE compressStaticChainFrom(_, _)
compressStaticChainFrom(label, cur) ==
  IF \/ cur.handlers # NoHandlers
     \/ cur.mount # NoHandler
     \/ cur.paramChild # NoEdge
     \/ cur.catchAllChild # NoEdge
     \/ Cardinality(DOMAIN cur.staticChildren) # 1
    THEN [ label |-> label, end |-> cur ]
    ELSE LET nextSeg == CHOOSE s \in DOMAIN cur.staticChildren : TRUE
         IN  compressStaticChainFrom(label \o << "/" >> \o nextSeg, cur.staticChildren[nextSeg])

compressStaticChain(firstSeg, child) == compressStaticChainFrom(<< "/" >> \o firstSeg, child)

\* insertRadixStaticEdge and mergeRadixSubtree call each other; both return
\* the node n (or dst) as the call leaves it.
RECURSIVE insertRadixStaticEdgeAt(_, _, _, _)
RECURSIVE mergeRadixEdges(_, _, _)

\* mergeRadixSubtree that merges the static edges of src and nothing else.
mergeRadixSubtreeEdgesOnly(dst, src) == mergeRadixEdges(dst, src.staticEdges, 1)

\* mergeRadixSubtree that keeps dst as it is.
mergeRadixSubtreeKeepingDst(dst, src) == dst

\* mergeRadixSubtree for dst and src both non-nil.
mergeRadixSubtree(dst, src) ==
  LET d == [ dst EXCEPT
               !.handlers = IF dst.handlers = NoHandlers THEN src.handlers ELSE dst.handlers,
               !.mount = IF dst.mount = NoHandler THEN src.mount ELSE dst.mount,
               !.paramChild = IF dst.paramChild = NoEdge THEN src.paramChild ELSE dst.paramChild,
               !.catchAllChild = IF dst.catchAllChild = NoEdge THEN src.catchAllChild
                                 ELSE dst.catchAllChild ]
  IN  mergeRadixEdges(d, src.staticEdges, 1)

\* insertRadixStaticEdge that appends the edge whatever edges n has.
insertRadixStaticEdgeAppending(n, label, child, i) ==
  [ n EXCEPT !.staticEdges = Append(n.staticEdges, [ label |-> label, next |-> child ]) ]

\* The loop of insertRadixStaticEdge from edge i (1-based) on.
insertRadixStaticEdgeAt(n, label, child, i) ==
  IF i > Len(n.staticEdges)
    THEN [ n EXCEPT !.staticEdges = Append(n.staticEdges, [ label |-> label, next |-> child ]) ]
  ELSE
    LET existing == n.staticEdges[i]
        common   == longestCommonPrefix(existing.label, label)
    IN  IF common = 0 THEN insertRadixStaticEdgeAt(n, label, child, i + 1)
        ELSE IF common = Len(existing.label) /\ common = Len(label)
          THEN [ n EXCEPT !.staticEdges[i].next = mergeRadixSubtree(existing.next, child) ]
        ELSE IF common = Len(existing.label)
          THEN [ n EXCEPT !.staticEdges[i].next =
                   insertRadixStaticEdgeAt(existing.next, From(label, common), child, 1) ]
        ELSE
          LET split == [ ZeroRadixNode EXCEPT !.staticEdges =
                           << [ label |-> From(existing.label, common), next |-> existing.next ] >> ]
              remainingNew == From(label, common)
              filled == IF remainingNew = << >> THEN mergeRadixSubtree(split, child)
                        ELSE insertRadixStaticEdgeAt(split, remainingNew, child, 1)
          IN  [ n EXCEPT !.staticEdges[i] =
                  [ label |-> Slice(existing.label, 0, common), next |-> filled ] ]

insertRadixStaticEdge(n, label, child) == insertRadixStaticEdgeAt(n, label, child, 1)

\* The loop of mergeRadixSubtree over src's static edges.
mergeRadixEdges(dst, edges, i) ==
  IF i > Len(edges) THEN dst
  ELSE mergeRadixEdges(insertRadixStaticEdge(dst, edges[i].label, edges[i].next), edges, i + 1)

\* The orders in which a range over a Go map may visit the keys S.
RECURSIVE MapOrders(_)
MapOrders(S) ==
  IF S = {} THEN { << >> }
  ELSE UNION { { << k >> \o rest : rest \in MapOrders(S \ { k }) } : k \in S }

\* buildRadixNode returns one of BuildRadixNodes(src): the range over
\* src.staticChildren visits the children in an order the runtime picks.
RECURSIVE BuildRadixNodes(_)
RECURSIVE BuildStaticEdges(_, _, _, _)
RECURSIVE BuildStaticEdge(_, _, _, _, _)

\* The nodes the loop over the static children can leave, visiting them in
\* the order keys from position i on, dst being the node built so far.
BuildStaticEdges(src, dst, keys, i) ==
  IF i > Len(keys) THEN { dst }
  ELSE BuildStaticEdge(src, dst, keys, i,
                       compressStaticChain(keys[i], src.staticChildren[keys[i]]))

\* The body of that loop for the child keys[i], c being its compressed chain.
BuildStaticEdge(src, dst, keys, i, c) ==
  UNION { BuildStaticEdges(src, insertRadixStaticEdge(dst, c.label, sub), keys, i + 1)
          : sub \in BuildRadixNodes(c.end) }

\* The radix edge built for a parameter or catch-all edge of the trie.
radixParamEdge(pe, next) ==
  [ name |-> pe.name, prefix |-> pe.prefix, suffix |-> pe.suffix,
    matcher |-> pe.matcher, next |-> next ]

radixCatchAllEdge(pe, next) ==
  [ name |-> pe.name, prefix |-> << >>, suffix |-> << >>,
    matcher |-> pe.matcher, next |-> next ]

BuildRadixNodes(src) ==
  UNION { UNION { BuildStaticEdges(src,
                    [ ZeroRadixNode EXCEPT
                        !.handlers = src.handlers,
                        !.mount = src.mount,
                        !.paramChild = IF src.paramChild = NoEdge THEN NoEdge
                                       ELSE radixParamEdge(src.paramChild, pn),
                        !.catchAllChild = IF src.catchAllChild = NoEdge THEN NoEdge
                                          ELSE radixCatchAllEdge(src.catchAllChild, cn) ],
                    keys, 1)
                  : keys \in MapOrders(DOMAIN src.staticChildren) }
          : pn \in (IF src.paramChild = NoEdge THEN { ZeroRadixNode }
                    ELSE BuildRadixNodes(src.paramChild.next)),
            cn \in (IF src.catchAllChild = NoEdge THEN { ZeroRadixNode }
                    ELSE BuildRadixNodes(src.catchAllChild.next)) }

\* sort.Slice of the static edges by label.
RECURSIVE SortEdges(_)
SortEdges(edges) ==
  IF edges = << >> THEN << >>
  ELSE
    LET m == CHOOSE i \in 1..Len(edges) :
               \A k \in 1..Len(edges) : ~StrLess(edges[k].label, edges[i].label)
    IN  << edges[m] >>
        \o SortEdges(SubSeq(edges, 1, m - 1) \o SubSeq(edges, m + 1, Len(edges)))

\* The index finalizeRadix fills in: a later edge overwrites the entry of an
\* earlier one with the same first byte; an empty label gets none.
staticEdgeIndexOf(edges) ==
  [ b \in { edges[i].label[1] : i \in { k \in 1..Len(edges) : edges[k].label # << >> } } |->
      CHOOSE i \in 1..Len(edges) :
        /\ edges[i].label # << >>
        /\ edges[i].label[1] = b
        /\ \A k \in (i + 1)..Len(edges) : edges[k].label = << >> \/ edges[k].label[1] # b ]

\* finalizeRadix; finalizeSorted is what follows the sort of the static edges.
RECURSIVE finalizeRadix(_)
RECURSIVE finalizeSorted(_, _)

finalizeRadix(n) ==
  finalizeSorted(n, IF Len(n.staticEdges) > 1 THEN SortEdges(n.staticEdges)
                    ELSE n.staticEdges)

finalizeSorted(n, sorted) ==
  [ n EXCEPT
      !.staticEdges = [ i \in 1..Len(sorted) |->
                          [ sorted[i] EXCEPT !.next = finalizeRadix(sorted[i].next) ] ],
      !.staticEdgeIndex = staticEdgeIndexOf(sorted),
      !.paramChild = IF n.paramChild = NoEdge THEN NoEdge
                     ELSE [ n.paramChild EXCEPT !.next = finalizeRadix(n.paramChild.next) ],
      !.catchAllChild = IF n.catchAllChild = NoEdge THEN NoEdge
                        ELSE [ n.catchAllChild EXCEPT
                                 !.next = finalizeRadix(n.catchAllChild.next) ] ]

\* buildRadix returns one of BuildRadix(root).
BuildRadix(root) == { finalizeRadix(rt) : rt \in BuildRadixNodes(root) }

staticEdgeFor(n, first) ==
  IF first \in DOMAIN n.staticEdgeIndex
    THEN n.staticEdges[n.staticEdgeIndex[first]]
    ELSE NoStaticEdge

(***************************************************************************)
(* radix.go: matching                                                      *)
(***************************************************************************)

\* nextSegmentAt: [ok, seg, nextPos].  i is the offset in path[start:] of
\* the next "/", or -1.
segmentFrom(path, start, i) ==
  IF i >= 0
    THEN [ ok |-> TRUE, seg |-> Slice(path, start, start + i), nextPos |-> start + i ]
    ELSE [ ok |-> TRUE, seg |-> From(path, start), nextPos |-> Len(path) ]

nextSegmentAt(path, pos) ==
  IF pos >= Len(path) \/ At(path, pos) # "/"
    THEN [ ok |-> FALSE, seg |-> << >>, nextPos |-> 0 ]
    ELSE segmentFrom(path, pos + 1, IndexByte(From(path, pos + 1), "/"))

\* catchAllAt stopping at the next "/": the catch-all takes one segment.
catchAllAtSegment(path, pos) ==
  [ ok |-> nextSegmentAt(path, pos).ok, rest |-> nextSegmentAt(path, pos).seg ]

\* catchAllAt: [ok, rest].
catchAllAt(path, pos) ==
  IF pos >= Len(path) \/ At(path, pos) # "/"
    THEN [ ok |-> FALSE, rest |-> << >> ]
    ELSE [ ok |-> TRUE, rest |-> From(path, pos + 1) ]

\* A nil *radixNode.
NoNode == [ nil |-> TRUE ]

\* A failed matchPath that leaves the caller's array as ps.
noMatch(ps) == [ leaf |-> NoNode, count |-> 0, ok |-> FALSE, params |-> ps ]

\* radixNode.matchPath: [leaf, count, ok, params]; params is the caller's
\* array as the call leaves it, the writes of abandoned branches included.
\* The steps of its body, each taking what the one before it found:
\*   matchStatic       the static edge for path[pos]
\*   matchAfterStatic  st: the outcome under the static edge
\*   matchParam        sg: the next segment
\*   matchParamValue   pm: the parameter edge's match of the segment
\*   matchParamStored  sto: the capture stored
\*   matchAfterParam   pr: the outcome under the parameter edge
\*   matchCatchAll     ca: the rest of the path
\*   matchCatchValue   cm: the catch-all edge's match of the rest
\*   matchCatchStored  sto: the capture stored
RECURSIVE matchPath(_, _, _, _, _)
RECURSIVE matchStatic(_, _, _, _, _, _)
RECURSIVE matchAfterStatic(_, _, _, _, _)
RECURSIVE matchParam(_, _, _, _, _, _)
RECURSIVE matchParamValue(_, _, _, _, _, _, _)
RECURSIVE matchParamStored(_, _, _, _, _, _)
RECURSIVE matchAfterParam(_, _, _, _, _)

matchCatchStored(n, sto) ==
  IF sto.ok
    THEN [ leaf |-> n.catchAllChild.next, count |-> sto.count, ok |-> TRUE,
           params |-> sto.params ]
    ELSE noMatch(sto.params)

matchCatchValue(n, params, paramCount, cm) ==
  IF cm.ok
    THEN matchCatchStored(n, storeParam(params, paramCount,
                                        [ name |-> n.catchAllChild.name, value |-> cm.value ]))
    ELSE noMatch(params)

matchCatchAll(n, params, paramCount, ca) ==
  IF ca.ok
    THEN matchCatchValue(n, params, paramCount,
           matchParamSegment(ca.rest, n.catchAllChild.prefix, n.catchAllChild.suffix,
                             n.catchAllChild.matcher))
    ELSE noMatch(params)

matchPath(n, path, pos, params, paramCount) ==
  IF pos = Len(path)
    THEN [ leaf |-> n, count |-> paramCount, ok |-> TRUE, params |-> params ]
    ELSE matchStatic(n, path, pos, params, paramCount, staticEdgeFor(n, At(path, pos)))

\* matchStatic that follows the edge found for the first byte when its label
\* is no longer than the rest of the path, without comparing the label.
matchStaticByFirstByte(n, path, pos, params, paramCount, edge) ==
  matchAfterStatic(n, path, pos, paramCount,
    IF edge # NoStaticEdge /\ Len(edge.label) <= Len(path) - pos
      THEN matchPath(edge.next, path, pos + Len(edge.label), params, paramCount)
      ELSE noMatch(params))

\* matchStatic that ends the match with what the static edge found, a
\* failure included, once the edge's label is a prefix of the rest of the
\* path.
matchStaticCommitted(n, path, pos, params, paramCount, edge) ==
  IF edge # NoStaticEdge /\ HasPrefix(From(path, pos), edge.label)
    THEN matchPath(edge.next, path, pos + Len(edge.label), params, paramCount)
    ELSE matchAfterStatic(n, path, pos, paramCount, noMatch(params))

\* matchStatic without the return of what the static edge found: the
\* parameter and catch-all edges are tried as if no static edge matched.
matchStaticIgnored(n, path, pos, params, paramCount, edge) ==
  matchAfterStatic(n, path, pos, paramCount, noMatch(params))

matchStatic(n, path, pos, params, paramCount, edge) ==
  matchAfterStatic(n, path, pos, paramCount,
    IF edge # NoStaticEdge /\ HasPrefix(From(path, pos), edge.label)
      THEN matchPath(edge.next, path, pos + Len(edge.label), params, paramCount)
      ELSE noMatch(params))

matchAfterStatic(n, path, pos, paramCount, st) ==
  IF st.ok THEN st
  ELSE IF n.paramChild # NoEdge
    THEN matchParam(n, path, pos, st.params, paramCount, nextSegmentAt(path, pos))
  ELSE matchAfterParam(n, path, pos, paramCount, noMatch(st.params))

matchParam(n, path, pos, params, paramCount, sg) ==
  IF sg.ok
    THEN matchParamValue(n, path, pos, params, paramCount, sg,
           matchParamSegment(sg.seg, n.paramChild.prefix, n.paramChild.suffix,
                             n.paramChild.matcher))
    ELSE matchAfterParam(n, path, pos, paramCount, noMatch(params))

matchParamValue(n, path, pos, params, paramCount, sg, pm) ==
  IF pm.ok
    THEN matchParamStored(n, path, pos, paramCount, sg,
           storeParam(params, paramCount, [ name |-> n.paramChild.name, value |-> pm.value ]))
    ELSE matchAfterParam(n, path, pos, paramCount, noMatch(params))

\* matchParamStored that goes on to the catch-all edge with the count the
\* parameter branch had reached.
matchParamStoredKeepingCount(n, path, pos, paramCount, sg, sto) ==
  matchAfterParam(n, path, pos, sto.count,
    IF sto.ok THEN matchPath(n.paramChild.next, path, sg.nextPos, sto.params, sto.count)
    ELSE noMatch(sto.params))

matchParamStored(n, path, pos, paramCount, sg, sto) ==
  matchAfterParam(n, path, pos, paramCount,
    IF sto.ok THEN matchPath(n.paramChild.next, path, sg.nextPos, sto.params, sto.count)
    ELSE noMatch(sto.params))

matchAfterParam(n, path, pos, paramCount, pr) ==
  IF pr.ok THEN pr
  ELSE IF n.catchAllChild # NoEdge
    THEN matchCatchAll(n, pr.params, paramCount, catchAllAt(path, pos))
  ELSE noMatch(pr.params)

\* The routeMatch of matchRoute for what matchPath returned.
routeMatch(n, path, m) ==
  IF path = << "/" >>
    THEN [ leaf |-> n, params |-> [ i \in 1..ParamCap |-> ZeroParam ],
           paramCount |-> 0, ok |-> TRUE ]
  ELSE IF ~m.ok
    THEN [ leaf |-> NoNode, params |-> [ i \in 1..ParamCap |-> ZeroParam ],
           paramCount |-> 0, ok |-> FALSE ]
  ELSE [ leaf |-> m.leaf, params |-> m.params, paramCount |-> m.count, ok |-> TRUE ]

\* radixNode.matchRoute: the routeMatch and ok.  A failed match returns the
\* zero routeMatch{}.
matchRoute(n, path) ==
  routeMatch(n, path, matchPath(n, path, 0, [ i \in 1..ParamCap |-> ZeroParam ], 0))

\* The loop of radixNode.findMount.
RECURSIVE findMountFrom(_, _, _, _)
\* findMount's loop without the test of the byte after the prefix: every
\* node with a mount on the way becomes the candidate.
findMountFromAnyOffset(cur, path, pos, candidate) ==
  IF pos = Len(path) THEN candidate
  ELSE
    LET edge == staticEdgeFor(cur, At(path, pos))
    IN  IF edge = NoStaticEdge \/ ~HasPrefix(From(path, pos), edge.label) THEN candidate
        ELSE findMountFrom(edge.next, path, pos + Len(edge.label),
                           IF edge.next.mount # NoHandler THEN edge.next.mount ELSE candidate)

findMountFrom(cur, path, pos, candidate) ==
  IF pos = Len(path) THEN candidate
  ELSE
    LET edge == staticEdgeFor(cur, At(path, pos))
    IN  IF edge = NoStaticEdge \/ ~HasPrefix(From(path, pos), edge.label) THEN candidate
        ELSE
          LET next == edge.next
              npos == pos + Len(edge.label)
          IN  findMountFrom(next, path, npos,
                IF next.mount # NoHandler
                   /\ (npos = Len(path) \/ (npos < Len(path) /\ At(path, npos) = "/"))
                  THEN next.mount ELSE candidate)

\* radixNode.findMount: the handler, or NoHandler.
findMount(n, path) ==
  findMountFrom(n, path, 0, IF n.mount # NoHandler THEN n.mount ELSE NoHandler)

(***************************************************************************)
(* The strings of the model: methods, route patterns and mount prefixes    *)
(* (P...), and request paths (U...; a pattern without braces is also used  *)
(* as a path).                                                             *)
(***************************************************************************)

\* GET
GET == << "G", "E", "T" >>

\* POST
POST == << "P", "O", "S", "T" >>

\* DELETE
DELETE == << "D", "E", "L", "E", "T", "E" >>

\* The patterns, prefixes and paths, by name.
Input ==
  [ \* /
    PRoot |-> << "/" >>,
    \* /users
    PUsers |-> << "/", "u", "s", "e", "r", "s" >>,
    \* /users/
    PUsersSlash |-> << "/", "u", "s", "e", "r", "s", "/" >>,
    \* /users/me
    PUsersMe |-> << "/", "u", "s", "e", "r", "s", "/", "m", "e" >>,
    \* /users/{id}
    PUsersId |-> << "/", "u", "s", "e", "r", "s", "/", "{", "i", "d", "}" >>,
    \* /users/{rest...}
    PUsersRest |-> << "/", "u", "s", "e", "r", "s", "/", "{", "r", "e", "s", "t", ".", ".", ".", "}" >>,
    \* /users/mel
    PUsersMel |-> << "/", "u", "s", "e", "r", "s", "/", "m", "e", "l" >>,
    \* /users/meg
    PUsersMeg |-> << "/", "u", "s", "e", "r", "s", "/", "m", "e", "g" >>,
    \* /files/{path...}
    PFilesPath |-> << "/", "f", "i", "l", "e", "s", "/", "{", "p", "a", "t", "h", ".", ".", ".", "}" >>,
    \* /files
    PFiles |-> << "/", "f", "i", "l", "e", "s" >>,
    \* /api
    PApi |-> << "/", "a", "p", "i" >>,
    \* /api/users
    PApiUsers |-> << "/", "a", "p", "i", "/", "u", "s", "e", "r", "s" >>,
    \* /api/users/{id}
    PApiUsersId |-> << "/", "a", "p", "i", "/", "u", "s", "e", "r", "s", "/", "{", "i", "d", "}" >>,
    \* /a/{x}/b
    PAXB |-> << "/", "a", "/", "{", "x", "}", "/", "b" >>,
    \* /a/b/c
    PABC |-> << "/", "a", "/", "b", "/", "c" >>,
    \* /a/{x}/d
    PAXD |-> << "/", "a", "/", "{", "x", "}", "/", "d" >>,
    \* /a
    PA |-> << "/", "a" >>,
    \* /a/{x}
    PAX |-> << "/", "a", "/", "{", "x", "}" >>,
    \* /a/b
    PAB |-> << "/", "a", "/", "b" >>,
    \* /{a}-{b}
    PADashB |-> << "/", "{", "a", "}", "-", "{", "b", "}" >>,
    \* /{a}/{b}/{c}/{d}/{e}/{f}/{g}/{h}
    PEight |-> << "/", "{", "a", "}", "/", "{", "b", "}", "/", "{", "c", "}", "/", "{", "d", "}", "/", "{", "e", "}", "/", "{", "f", "}", "/", "{", "g", "}", "/", "{", "h", "}" >>,
    \* /{a}/{b}/{c}/{d}/{e}/{f}/{g}/{h}/{i}
    PNine |-> << "/", "{", "a", "}", "/", "{", "b", "}", "/", "{", "c", "}", "/", "{", "d", "}", "/", "{", "e", "}", "/", "{", "f", "}", "/", "{", "g", "}", "/", "{", "h", "}", "/", "{", "i", "}" >>,
    \* /users/42
    UUsers42 |-> << "/", "u", "s", "e", "r", "s", "/", "4", "2" >>,
    \* /users/a/b
    UUsersAB |-> << "/", "u", "s", "e", "r", "s", "/", "a", "/", "b" >>,
    \* /users/x
    UUsersX |-> << "/", "u", "s", "e", "r", "s", "/", "x" >>,
    \* /files/a/b/c.txt
    UFilesABC |-> << "/", "f", "i", "l", "e", "s", "/", "a", "/", "b", "/", "c", ".", "t", "x", "t" >>,
    \* /files/
    UFilesSlash |-> << "/", "f", "i", "l", "e", "s", "/" >>,
    \* /api/users/9
    UApiUsers9 |-> << "/", "a", "p", "i", "/", "u", "s", "e", "r", "s", "/", "9" >>,
    \* /api/other
    UApiOther |-> << "/", "a", "p", "i", "/", "o", "t", "h", "e", "r" >>,
    \* /apix
    UApix |-> << "/", "a", "p", "i", "x" >>,
    \* /a//b
    UASlashB |-> << "/", "a", "/", "/", "b" >>,
    \* /a/b/d
    UABD |-> << "/", "a", "/", "b", "/", "d" >>,
    \* /a/bc
    UABc |-> << "/", "a", "/", "b", "c" >>,
    \* /a/y/b
    UAYB |-> << "/", "a", "/", "y", "/", "b" >>,
    \* /1-2
    U1Dash2 |-> << "/", "1", "-", "2" >>,
    \* /12
    U12 |-> << "/", "1", "2" >>,
    \* /1/2/3/4/5/6/7/8
    UEight |-> << "/", "1", "/", "2", "/", "3", "/", "4", "/", "5", "/", "6", "/", "7", "/", "8" >>,
    \* /1/2/3/4/5/6/7/8/9
    UNine |-> << "/", "1", "/", "2", "/", "3", "/", "4", "/", "5", "/", "6", "/", "7", "/", "8", "/", "9" >>,
    \* /users/{name}
    usersName |-> << "/", "u", "s", "e", "r", "s", "/", "{", "n", "a", "m", "e", "}" >>,
    \* /users/{id:\d+}
    usersIdDigits |-> << "/", "u", "s", "e", "r", "s", "/", "{", "i", "d", ":", "\\", "d", "+", "}" >>,
    \* /users/{id}.json
    usersIdJson |-> << "/", "u", "s", "e", "r", "s", "/", "{", "i", "d", "}", ".", "j", "s", "o", "n" >>,
    \* /users/{id}/posts
    usersIdPosts |-> << "/", "u", "s", "e", "r", "s", "/", "{", "i", "d", "}", "/", "p", "o", "s", "t", "s" >>,
    \* /files/{rest...}
    filesRest |-> << "/", "f", "i", "l", "e", "s", "/", "{", "r", "e", "s", "t", ".", ".", ".", "}" >>,
    \* /users/42/posts
    users42Posts |-> << "/", "u", "s", "e", "r", "s", "/", "4", "2", "/", "p", "o", "s", "t", "s" >>,
    \* /files/{path...}/x
    catchAllThenSegment |-> << "/", "f", "i", "l", "e", "s", "/", "{", "p", "a", "t", "h", ".", ".", ".", "}", "/", "x" >>,
    \* /files/x{path...}
    catchAllAfterLiteral |-> << "/", "f", "i", "l", "e", "s", "/", "x", "{", "p", "a", "t", "h", ".", ".", ".", "}" >>,
    \* /files/{path...}x
    catchAllBeforeLiteral |-> << "/", "f", "i", "l", "e", "s", "/", "{", "p", "a", "t", "h", ".", ".", ".", "}", "x" >>,
    \* /files/{path...:[0-9]+}
    catchAllThenExpr |-> << "/", "f", "i", "l", "e", "s", "/", "{", "p", "a", "t", "h", ".", ".", ".", ":", "[", "0", "-", "9", "]", "+", "}" >>,
    \* /files/{path:[0-9]+...}
    catchAllWithExpr |-> << "/", "f", "i", "l", "e", "s", "/", "{", "p", "a", "t", "h", ":", "[", "0", "-", "9", "]", "+", ".", ".", ".", "}" >>,
    \* /{rest...}
    catchAllAlone |-> << "/", "{", "r", "e", "s", "t", ".", ".", ".", "}" >>,
    \* users
    usersNoSlash |-> << "u", "s", "e", "r", "s" >>,
    \* /ab
    ab |-> << "/", "a", "b" >>,
    \* /abc
    abc |-> << "/", "a", "b", "c" >>,
    \* /api/{name:[0-9]+}.json
    apiNameJson |-> << "/", "a", "p", "i", "/", "{", "n", "a", "m", "e", ":", "[", "0", "-", "9", "]", "+", "}", ".", "j", "s", "o", "n" >>,
    \* /api/v{id}.json
    apiVIdJson |-> << "/", "a", "p", "i", "/", "v", "{", "i", "d", "}", ".", "j", "s", "o", "n" >>,
    \* /api/123.json
    api123Json |-> << "/", "a", "p", "i", "/", "1", "2", "3", ".", "j", "s", "o", "n" >>,
    \* /api/abc.json
    apiAbcJson |-> << "/", "a", "p", "i", "/", "a", "b", "c", ".", "j", "s", "o", "n" >>,
    \* /api/123.txt
    api123Txt |-> << "/", "a", "p", "i", "/", "1", "2", "3", ".", "t", "x", "t" >>,
    \* /api/.json
    apiDotJson |-> << "/", "a", "p", "i", "/", ".", "j", "s", "o", "n" >>,
    \* /api/v.json
    apiVJson |-> << "/", "a", "p", "i", "/", "v", ".", "j", "s", "o", "n" >>,
    \* /api/v1.json
    apiV1Json |-> << "/", "a", "p", "i", "/", "v", "1", ".", "j", "s", "o", "n" >>,
    \* /a/{rest...}
    PARest |-> << "/", "a", "/", "{", "r", "e", "s", "t", ".", ".", ".", "}" >>,
    \* /a/b/f
    UABF |-> << "/", "a", "/", "b", "/", "f" >> ]

(***************************************************************************)
(* router.go: the Router                                                   *)
(***************************************************************************)

\* Handlers are opaque to the router: the handler registered for a route is
\* named by its method and pattern, the handler of a mount by its prefix.
RouteHandler(method, pattern) == [ route |-> pattern, method |-> method ]

\* middleware.go: the handler a middleware of the application returns for
\* next; by is the name the middleware notes when it is called.
Wrap(by, next) == [ by |-> by, next |-> next ]

\* The loop of chainMiddlewares from index i (0-based) down.
RECURSIVE chainMiddlewaresFrom(_, _, _)
chainMiddlewaresFrom(h, mws, i) ==
  IF i < 0 THEN h
  ELSE chainMiddlewaresFrom(Wrap(At(mws, i), h), mws, i - 1)

\* The loop of chainMiddlewares run from the first middleware up: the last
\* one ends outermost.
RECURSIVE chainMiddlewaresUp(_, _, _)
chainMiddlewaresUp(h, mws, i) ==
  IF i >= Len(mws) THEN h
  ELSE chainMiddlewaresUp(Wrap(At(mws, i), h), mws, i + 1)

chainMiddlewaresLastOutermost(h, mws) == chainMiddlewaresUp(h, mws, 0)

chainMiddlewares(h, mws) == chainMiddlewaresFrom(h, mws, Len(mws) - 1)

MountHandler(prefix) == [ mount |-> prefix ]

\* The loop of Compile over r.state.routes from registration i (1-based) on:
\* [err, root].  compileRoute is its body from compilePattern on, cp being
\* the compiled pattern; compileRouteInserted follows insertRoute's return.
RECURSIVE compileRoutes(_, _, _)
RECURSIVE compileRoute(_, _, _, _)
RECURSIVE compileRouteInserted(_, _, _, _)

compileRoutes(root, rts, i) ==
  IF i > Len(rts) THEN [ err |-> NoErr, root |-> root ]
  ELSE IF rts[i].method = << >> THEN [ err |-> "invalid method: empty", root |-> root ]
  ELSE IF rts[i].handler = NoHandler THEN [ err |-> "invalid handler: nil", root |-> root ]
  ELSE compileRoute(root, rts, i, compilePattern(rts[i].pattern))

compileRoute(root, rts, i, cp) ==
  IF cp.err # NoErr THEN [ err |-> cp.err, root |-> root ]
  ELSE compileRouteInserted(root, rts, i,
                            insertRoute(root, rts[i].method, cp,
                                        chainMiddlewares(rts[i].handler, rts[i].middleware)))

compileRouteInserted(root, rts, i, ins) ==
  IF ins.err # NoErr THEN [ err |-> ins.err, root |-> root ]
  ELSE compileRoutes(ins.node, rts, i + 1)

\* The loop of Compile over r.state.mounts, in the same steps.
RECURSIVE compileMounts(_, _, _)
RECURSIVE compileMount(_, _, _, _)
RECURSIVE compileMountInserted(_, _, _, _)

compileMounts(root, mts, i) ==
  IF i > Len(mts) THEN [ err |-> NoErr, root |-> root ]
  ELSE IF mts[i].handler = NoHandler THEN [ err |-> "invalid handler: nil", root |-> root ]
  ELSE compileMount(root, mts, i, compilePattern(mts[i].prefix))

compileMount(root, mts, i, cp) ==
  IF cp.err # NoErr THEN [ err |-> cp.err, root |-> root ]
  ELSE IF \E k \in 1..Len(cp.segments) : cp.segments[k].kind # segmentStatic
    THEN [ err |-> "invalid mount prefix: prefix must be a static path", root |-> root ]
  ELSE compileMountInserted(root, mts, i, insertMount(root, cp, mts[i].handler))

compileMountInserted(root, mts, i, ins) ==
  IF ins.err # NoErr THEN [ err |-> ins.err, root |-> root ]
  ELSE compileMounts(ins.node, mts, i + 1)

\* The validating trie Compile builds: [err, root].
compileTrieMounts(r, mts) ==
  IF r.err # NoErr THEN r ELSE compileMounts(r.root, mts, 1)

compileTrie(rts, mts) ==
  compileTrieMounts(compileRoutes(newNode, rts, 1), mts)

\* The request's path values after the SetPathValue calls of ServeHTTP for
\* params[0..count-1], in that order.
RECURSIVE setPathValues(_, _, _, _)
setPathValues(values, params, i, count) ==
  IF i >= count THEN values
  ELSE setPathValues(MapPut(values, At(params, i).name, At(params, i).value), params, i + 1, count)

\* The handler h serving a request that has these path values: the calls
\* made, outermost first, each with the path values it sees.  A middleware
\* of the application notes its call and calls the handler it wraps.
RECURSIVE serveHandler(_, _)
serveHandler(h, values) ==
  IF "by" \in DOMAIN h
    THEN << [ by |-> h.by, pathValues |-> values ] >> \o serveHandler(h.next, values)
    ELSE << [ by |-> h, pathValues |-> values ] >>

NoResponse ==
  [ kind |-> "none", handler |-> NoHandler, pathValues |-> << >>, allow |-> << >>,
    calls |-> << >> ]

\* Router.ServeHTTP from the route match on, looking for a mount before it
\* answers method-not-allowed.
serveMatchedMountFirst(rt, method, path, matched) ==
  IF matched.ok /\ method \in DOMAIN matched.leaf.handlers
    THEN [ NoResponse EXCEPT
             !.kind = "route",
             !.handler = matched.leaf.handlers[method],
             !.pathValues = setPathValues(<< >>, matched.params, 0, matched.paramCount),
             !.calls = serveHandler(matched.leaf.handlers[method],
                                    setPathValues(<< >>, matched.params, 0,
                                                  matched.paramCount)) ]
  ELSE IF findMount(rt, path) # NoHandler
    THEN [ NoResponse EXCEPT !.kind = "mount", !.handler = findMount(rt, path),
                             !.calls = serveHandler(findMount(rt, path), << >>) ]
  ELSE IF matched.ok /\ DOMAIN matched.leaf.handlers # {}
    THEN [ NoResponse EXCEPT
             !.kind = "methodNotAllowed",
             !.allow = allowHeaderValue(matched.leaf.handlers) ]
  ELSE [ NoResponse EXCEPT !.kind = "notFound" ]

\* Router.ServeHTTP from the route match on: matched is what matchRoute
\* returned.
serveMatched(rt, method, path, matched) ==
  IF matched.ok /\ method \in DOMAIN matched.leaf.handlers
    THEN [ NoResponse EXCEPT
             !.kind = "route",
             !.handler = matched.leaf.handlers[method],
             !.pathValues = setPathValues(<< >>, matched.params, 0, matched.paramCount),
             !.calls = serveHandler(matched.leaf.handlers[method],
                                    setPathValues(<< >>, matched.params, 0,
                                                  matched.paramCount)) ]
  ELSE IF matched.ok /\ DOMAIN matched.leaf.handlers # {}
    THEN [ NoResponse EXCEPT
             !.kind = "methodNotAllowed",
             !.allow = allowHeaderValue(matched.leaf.handlers) ]
  ELSE IF findMount(rt, path) # NoHandler
    THEN [ NoResponse EXCEPT !.kind = "mount", !.handler = findMount(rt, path),
                             !.calls = serveHandler(findMount(rt, path), << >>) ]
  ELSE [ NoResponse EXCEPT !.kind = "notFound" ]

\* Router.ServeHTTP on the radix tree rt: what the call does, as the handler
\* that runs (with the path values it sees) or the router's own answer.
serveHTTP(isCompiled, rt, method, path) ==
  IF ~isCompiled \/ rt = NoNode THEN [ NoResponse EXCEPT !.kind = "panic" ]
  ELSE IF path = << >> \/ At(path, 0) # "/" THEN [ NoResponse EXCEPT !.kind = "notFound" ]
  ELSE serveMatched(rt, method, path, matchRoute(rt, path))

(***************************************************************************)
(* The state machine.  A router serves one application; the application's  *)
(* vocabulary (the patterns and prefixes it registers, the methods it      *)
(* registers them for, and the requests it receives) is one of Vocabs.     *)
(***************************************************************************)

\* The most registrations of routes, and of mounts, made on one router.
MaxRoutes == 3

MaxMounts == 2

Vocabs ==
  << \* precedence of static, parameter and catch-all; trailing slash
     [ patterns |-> { Input.PUsersMe, Input.PUsersId, Input.PUsersRest, Input.PUsers, Input.PUsersSlash },
       prefixes |-> { },
       methods  |-> { GET },
       paths    |-> { Input.PUsersMe, Input.UUsers42, Input.UUsersAB, Input.PUsers, Input.PUsersSlash },
       asks     |-> { GET },
       uses     |-> { } ],
     \* two static routes that share a part of a segment, and a mount
     [ patterns |-> { Input.PUsersMel, Input.PUsersMeg, Input.PUsersId },
       prefixes |-> { Input.PUsers },
       methods  |-> { GET },
       paths    |-> { Input.PUsersMe, Input.PUsersMel, Input.UUsersX, Input.PUsers },
       asks     |-> { GET },
       uses     |-> { } ],
     \* catch-all and the root
     [ patterns |-> { Input.PFilesPath, Input.PFiles, Input.PRoot },
       prefixes |-> { Input.PRoot },
       methods  |-> { GET },
       paths    |-> { Input.UFilesABC, Input.UFilesSlash, Input.PFiles, Input.PRoot },
       asks     |-> { GET },
       uses     |-> { } ],
     \* mounts and routes under them
     [ patterns |-> { Input.PApiUsersId, Input.PApiUsers },
       prefixes |-> { Input.PApi, Input.PApiUsers, Input.PRoot },
       methods  |-> { GET },
       paths    |-> { Input.UApiUsers9, Input.UApiOther, Input.UApix, Input.PApi, Input.PApiUsers },
       asks     |-> { GET },
       uses     |-> { } ],
     \* backtracking, empty segments, nested mounts
     [ patterns |-> { Input.PAXB, Input.PABC, Input.PAXD },
       prefixes |-> { Input.PA, Input.PAB },
       methods  |-> { GET },
       paths    |-> { Input.UASlashB, Input.UABD, Input.UABc, Input.UAYB, Input.PABC, Input.PAB },
       asks     |-> { GET },
       uses     |-> { } ],
     \* several parameters in one segment; more parameters than ParamCap
     [ patterns |-> { Input.PADashB, Input.PEight, Input.PNine },
       prefixes |-> { },
       methods  |-> { GET },
       paths    |-> { Input.U1Dash2, Input.U12, Input.UEight, Input.UNine },
       asks     |-> { GET },
       uses     |-> { } ],
     \* several methods on one pattern
     [ patterns |-> { Input.PUsers, Input.PUsersId },
       prefixes |-> { Input.PUsers },
       methods  |-> { GET, POST },
       paths    |-> { Input.PUsers, Input.UUsers42 },
       asks     |-> { GET, DELETE },
       uses     |-> { } ],
     \* a mount at a path that a parameter route matches
     [ patterns |-> { Input.PAX },
       prefixes |-> { Input.PAB },
       methods  |-> { GET },
       paths    |-> { Input.PAB, Input.UABc, Input.PA },
       asks     |-> { GET },
       uses     |-> { } ],
     \* parameter and catch-all edges that agree or conflict at one node
     [ patterns |-> { Input.PUsersId, Input.usersName, Input.usersIdDigits, Input.usersIdJson,
                      Input.usersIdPosts, Input.PFilesPath, Input.filesRest },
       prefixes |-> { },
       methods  |-> { GET },
       paths    |-> { Input.users42Posts },
       asks     |-> { GET },
       uses     |-> { } ],
     \* catch-all spans in and out of place
     [ patterns |-> { Input.PFilesPath, Input.catchAllAlone, Input.catchAllThenSegment,
                      Input.catchAllAfterLiteral, Input.catchAllBeforeLiteral,
                      Input.catchAllThenExpr, Input.catchAllWithExpr },
       prefixes |-> { },
       methods  |-> { GET },
       paths    |-> { Input.UFilesABC },
       asks     |-> { GET },
       uses     |-> { } ],
     \* registrations that Compile refuses, among routes and among mounts
     [ patterns |-> { Input.PUsers, Input.usersNoSlash },
       prefixes |-> { Input.PUsers, Input.PUsersId },
       methods  |-> { GET },
       paths    |-> { Input.PUsers },
       asks     |-> { GET },
       uses     |-> { } ],
     \* static siblings of which one is the start of another
     [ patterns |-> { Input.PA, Input.ab, Input.PAB, Input.UABc },
       prefixes |-> { },
       methods  |-> { GET },
       paths    |-> { Input.PA, Input.ab, Input.PAB, Input.UABc, Input.abc },
       asks     |-> { GET },
       uses     |-> { } ],
     \* a parameter between a literal prefix and a literal suffix
     [ patterns |-> { Input.apiNameJson, Input.apiVIdJson },
       prefixes |-> { },
       methods  |-> { GET },
       paths    |-> { Input.api123Json, Input.apiAbcJson, Input.api123Txt,
                      Input.apiDotJson, Input.apiVJson, Input.apiV1Json },
       asks     |-> { GET },
       uses     |-> { } ],
     \* middlewares used before and after a route is registered
     [ patterns |-> { Input.PUsersId },
       prefixes |-> { Input.PApi },
       methods  |-> { GET },
       paths    |-> { Input.UUsers42, Input.PUsers, Input.PApi },
       asks     |-> { GET },
       uses     |-> { << "A", "B", "C" >>, << "D" >> } ],
     \* routes registered through the router and through routers derived from it
     [ patterns |-> { Input.PUsers, Input.PApi },
       prefixes |-> { },
       methods  |-> { GET },
       paths    |-> { Input.PUsers, Input.PApi },
       asks     |-> { GET },
       uses     |-> { << "A", "B" >> },
       withs    |-> { << >>, << "C" >> } ],
     \* a static and a parameter route of different methods under a mount
     [ patterns |-> { Input.PUsersMe, Input.PUsersId },
       prefixes |-> { Input.PUsers },
       methods  |-> { GET, POST },
       paths    |-> { Input.PUsersMe, Input.UUsers42 },
       asks     |-> { GET, POST },
       uses     |-> { << "A" >> } ],
     \* a static route beside a parameter and a catch-all route
     [ patterns |-> { Input.PAB, Input.PAXD, Input.PARest },
       prefixes |-> { },
       methods  |-> { GET },
       paths    |-> { Input.UABD, Input.UABF, Input.PAB },
       asks     |-> { GET },
       uses     |-> { << "A" >> } ] >>

VARIABLES
  vocab,          \* the application's vocabulary: an index of Vocabs
  routes,         \* r.state.routes
  mounts,         \* r.state.mounts
  root,           \* r.state.root
  compiled,       \* r.state.compiled
  middleware,     \* r.middleware
  derived,        \* the middleware of each router that With returned
  compileErr,     \* what the last call of Compile returned; "none" before any
  req,            \* the request of the last ServeHTTP call
  resp,           \* what that call did
  compiling,      \* the Compile call in progress on another goroutine
  serving         \* the ServeHTTP call in progress on another goroutine

vars ==
  << vocab, routes, mounts, root, compiled, middleware, derived, compileErr, req, resp,
     compiling, serving >>

NoRequest == [ method |-> << >>, path |-> << >> ]

\* No Compile call in progress.  A call in progress is at pc "built" with
\* its local tree built (raw, before finalizeRadix, and tree, after it), or
\* at pc "stored" after the store of r.state.root.
NotCompiling == [ pc |-> "idle", raw |-> NoNode, tree |-> NoNode ]

\* No ServeHTTP call in progress.  A call in progress is at pc "match"
\* before r.state.root.matchRoute or at pc "mount" before
\* r.state.root.findMount; partial holds the trees whose stores it may see
\* in part, walked the trees it has walked.
NotServing ==
  [ pc |-> "idle", method |-> << >>, path |-> << >>, partial |-> { }, walked |-> { } ]

\* New().
Init ==
  /\ vocab \in 1..Len(Vocabs)
  /\ routes = << >>
  /\ mounts = << >>
  /\ root = NoNode
  /\ compiled = FALSE
  /\ middleware = << >>
  /\ derived = << >>
  /\ compileErr = "none"
  /\ req = NoRequest
  /\ resp = NoResponse
  /\ compiling = NotCompiling
  /\ serving = NotServing

\* Handle without the reset of the compiled flag.
HandleKeepingCompiled(method, pattern, h) ==
  /\ Len(routes) < MaxRoutes
  /\ routes' = Append(routes, [ method |-> method, pattern |-> pattern, handler |-> h,
                              middleware |-> middleware ])
  /\ req' = NoRequest
  /\ resp' = NoResponse
  /\ UNCHANGED << vocab, middleware, derived, mounts, root, compiled, compileErr, compiling,
                  serving >>

\* Router.Handle(method, pattern, h).
Handle(method, pattern, h) ==
  /\ Len(routes) < MaxRoutes
  /\ routes' = Append(routes, [ method |-> method, pattern |-> pattern, handler |-> h,
                              middleware |-> middleware ])
  /\ compiled' = FALSE
  /\ req' = NoRequest
  /\ resp' = NoResponse
  /\ UNCHANGED << vocab, middleware, derived, mounts, root, compileErr, compiling, serving >>

\* Router.Mount(prefix, h).
Mount(prefix, h) ==
  /\ Len(mounts) < MaxMounts
  /\ mounts' = Append(mounts, [ prefix |-> prefix, handler |-> h ])
  /\ compiled' = FALSE
  /\ req' = NoRequest
  /\ resp' = NoResponse
  /\ UNCHANGED << vocab, middleware, derived, routes, root, compileErr, compiling, serving >>

\* Compile that unpublishes the tree when it fails.
CompileTrieUnpublishing(t) ==
  /\ IF t.err # NoErr
       THEN /\ compileErr' = t.err
            /\ root' = NoNode
            /\ compiled' = FALSE
       ELSE /\ compileErr' = NoErr
            /\ root' \in BuildRadix(t.root)
            /\ compiled' = TRUE
  /\ req' = NoRequest
  /\ resp' = NoResponse
  /\ UNCHANGED << vocab, middleware, derived, routes, mounts, compiling, serving >>

\* Router.Compile(), t being the validating trie it built or the error it
\* met: on an error nothing is published.
CompileTrie(t) ==
  /\ IF t.err # NoErr
       THEN /\ compileErr' = t.err
            /\ UNCHANGED << root, compiled >>
       ELSE /\ compileErr' = NoErr
            /\ root' \in BuildRadix(t.root)
            /\ compiled' = TRUE
  /\ req' = NoRequest
  /\ resp' = NoResponse
  /\ UNCHANGED << vocab, middleware, derived, routes, mounts, compiling, serving >>

Compile == CompileTrie(compileTrie(routes, mounts))

\* ServeHTTP that clears the compiled flag after it has served.
ServeHTTPOnce(method, path) ==
  /\ req' = [ method |-> method, path |-> path ]
  /\ resp' = serveHTTP(compiled, root, method, path)
  /\ compiled' = FALSE
  /\ UNCHANGED << vocab, middleware, derived, routes, mounts, root, compileErr, compiling,
                  serving >>

\* Router.ServeHTTP(w, req) for a request with this method and URL path.
ServeHTTP(method, path) ==
  /\ req' = [ method |-> method, path |-> path ]
  /\ resp' = serveHTTP(compiled, root, method, path)
  /\ UNCHANGED << vocab, middleware, derived, routes, mounts, root, compiled, compileErr,
                  compiling, serving >>

Next ==
  \/ \E method \in Vocabs[vocab].methods, pattern \in Vocabs[vocab].patterns :
       Handle(method, pattern, RouteHandler(method, pattern))
  \/ \E prefix \in Vocabs[vocab].prefixes : Mount(prefix, MountHandler(prefix))
  \/ Compile
  \/ \E method \in Vocabs[vocab].asks, path \in Vocabs[vocab].paths : ServeHTTP(method, path)

Spec == Init /\ [][Next]_vars

(***************************************************************************)
(* The router before it serves: registrations and Compile.                  *)
(***************************************************************************)

NextRegister ==
  \/ \E method \in Vocabs[vocab].methods, pattern \in Vocabs[vocab].patterns :
       Handle(method, pattern, RouteHandler(method, pattern))
  \/ \E prefix \in Vocabs[vocab].prefixes : Mount(prefix, MountHandler(prefix))
  \/ Compile

SpecRegister == Init /\ [][NextRegister]_vars

(***************************************************************************)
(* The router of an application that uses middleware.                      *)
(***************************************************************************)

\* The most middlewares on one router.
MaxMiddleware == 3

\* Router.Use(mw...), mw being the names of the middlewares.
Use(mw) ==
  /\ Len(middleware) + Len(mw) <= MaxMiddleware
  /\ middleware' = middleware \o mw
  /\ UNCHANGED << vocab, derived, routes, mounts, root, compiled, compileErr, req, resp,
                  compiling, serving >>

\* The application that uses middleware.
InitUse == Init /\ vocab = 14

NextUse ==
  \/ \E mw \in Vocabs[vocab].uses : Use(mw)
  \/ \E method \in Vocabs[vocab].methods, pattern \in Vocabs[vocab].patterns :
       Handle(method, pattern, RouteHandler(method, pattern))
  \/ \E prefix \in Vocabs[vocab].prefixes : Mount(prefix, MountHandler(prefix))
  \/ Compile
  \/ \E method \in Vocabs[vocab].asks, path \in Vocabs[vocab].paths : ServeHTTP(method, path)

SpecUse == InitUse /\ [][NextUse]_vars

(***************************************************************************)
(* The router of an application that registers through derived routers.    *)
(* derived[k] is the middleware field of the k-th router returned by With; *)
(* router 0 is the one New returned.  All of them share r.state.           *)
(***************************************************************************)

\* The most routers made by With on one router.
MaxDerived == 2

\* The middleware field of router k.
middlewareOf(k) == IF k = 0 THEN middleware ELSE derived[k]

\* The handler the application registers for the route through router k > 0.
DerivedHandler(k, method, pattern) == [ route |-> pattern, method |-> method, via |-> k ]

\* Router.With(mw...) on router k, without the copy: the parent's field is
\* the combined list too.
WithShared(k, mw) ==
  /\ Len(derived) < MaxDerived
  /\ Len(middlewareOf(k)) + Len(mw) <= MaxMiddleware
  /\ derived' = IF k = 0 THEN Append(derived, middleware \o mw)
                ELSE Append([ derived EXCEPT ![k] = @ \o mw ], derived[k] \o mw)
  /\ middleware' = IF k = 0 THEN middleware \o mw ELSE middleware
  /\ UNCHANGED << vocab, routes, mounts, root, compiled, compileErr, req, resp, compiling,
                  serving >>

\* Router.With(mw...) on router k; Group(fn) is fn(r.With()).
With(k, mw) ==
  /\ Len(derived) < MaxDerived
  /\ Len(middlewareOf(k)) + Len(mw) <= MaxMiddleware
  /\ derived' = Append(derived, middlewareOf(k) \o mw)
  /\ UNCHANGED << vocab, middleware, routes, mounts, root, compiled, compileErr, req, resp,
                  compiling, serving >>

\* Router.Use(mw...) on the derived router k.
UseOn(k, mw) ==
  /\ Len(derived[k]) + Len(mw) <= MaxMiddleware
  /\ derived' = [ derived EXCEPT ![k] = @ \o mw ]
  /\ UNCHANGED << vocab, middleware, routes, mounts, root, compiled, compileErr, req, resp,
                  compiling, serving >>

\* Router.Handle(method, pattern, h) on the derived router k.
HandleOn(k, method, pattern, h) ==
  /\ Len(routes) < MaxRoutes
  /\ routes' = Append(routes, [ method |-> method, pattern |-> pattern, handler |-> h,
                                middleware |-> derived[k] ])
  /\ compiled' = FALSE
  /\ req' = NoRequest
  /\ resp' = NoResponse
  /\ UNCHANGED << vocab, middleware, derived, mounts, root, compileErr, compiling, serving >>

\* The patterns the application has not registered yet.
Unregistered ==
  { p \in Vocabs[vocab].patterns : \A i \in 1..Len(routes) : routes[i].pattern # p }

\* The application that registers through derived routers.
InitWith == Init /\ vocab = 15

NextWith ==
  \/ \E mw \in Vocabs[vocab].uses : Use(mw)
  \/ \E k \in 0..Len(derived), mw \in Vocabs[vocab].withs : With(k, mw)
  \/ \E k \in 1..Len(derived), mw \in Vocabs[vocab].uses : UseOn(k, mw)
  \/ \E method \in Vocabs[vocab].methods, pattern \in Unregistered :
       Handle(method, pattern, RouteHandler(method, pattern))
  \/ \E k \in 1..Len(derived), method \in Vocabs[vocab].methods, pattern \in Unregistered :
       HandleOn(k, method, pattern, DerivedHandler(k, method, pattern))
  \/ Compile
  \/ \E method \in Vocabs[vocab].asks, path \in Vocabs[vocab].paths : ServeHTTP(method, path)

SpecWith == InitWith /\ [][NextWith]_vars

(***************************************************************************)
(* The router used from two goroutines: one registers and compiles, the    *)
(* other serves.  The router has no lock and no atomic operation, so the   *)
(* calls are taken by the accesses they make to r.state: Compile builds    *)
(* its tree in locals, stores r.state.root and then r.state.compiled;      *)
(* ServeHTTP loads r.state.compiled and r.state.root for its test, loads   *)
(* r.state.root again for matchRoute and again for findMount.  A load of   *)
(* r.state.root that is not ordered after the store made by Compile may    *)
(* return the new pointer while the loads of the nodes behind it return    *)
(* what they held before finalizeRadix wrote them.                         *)
(***************************************************************************)

\* Compile up to the end of buildRadix, t being its validating trie: an
\* error returns at once; otherwise the tree is complete in the locals.
CompileBuildTrie(t) ==
  /\ compiling.pc = "idle"
  /\ IF t.err # NoErr
       THEN /\ compileErr' = t.err
            /\ UNCHANGED compiling
       ELSE /\ \E raw \in BuildRadixNodes(t.root) :
                 compiling' = [ pc |-> "built", raw |-> raw, tree |-> finalizeRadix(raw) ]
            /\ UNCHANGED compileErr
  /\ UNCHANGED << vocab, middleware, derived, routes, mounts, root, compiled, req, resp,
                  serving >>

CompileBuild == CompileBuildTrie(compileTrie(routes, mounts))

\* Compile: r.state.root = buildRadix(root).  A ServeHTTP call in progress
\* has no ordering with the stores that built the tree.
CompileStoreRoot ==
  /\ compiling.pc = "built"
  /\ root' = compiling.tree
  /\ compiling' = [ compiling EXCEPT !.pc = "stored" ]
  /\ serving' = IF serving.pc = "idle" THEN serving
                ELSE [ serving EXCEPT !.partial = @ \cup { compiling.raw } ]
  /\ UNCHANGED << vocab, middleware, derived, routes, mounts, compiled, compileErr, req, resp >>

\* Compile: r.state.compiled = true; return nil.
CompileStoreCompiled ==
  /\ compiling.pc = "stored"
  /\ compiled' = TRUE
  /\ compileErr' = NoErr
  /\ compiling' = NotCompiling
  /\ UNCHANGED << vocab, middleware, derived, routes, mounts, root, req, resp, serving >>

\* ServeHTTP up to the load of r.state.root for matchRoute: the panic and
\* the answer to a path without a leading slash end the call.
ServeCheck(method, path) ==
  /\ serving.pc = "idle"
  /\ req' = [ method |-> method, path |-> path ]
  /\ IF ~compiled \/ root = NoNode \/ path = << >> \/ At(path, 0) # "/"
       THEN /\ resp' = serveHTTP(compiled, root, method, path)
            /\ serving' = NotServing
       ELSE /\ resp' = NoResponse
            /\ serving' = [ NotServing EXCEPT
                               !.pc = "match", !.method = method, !.path = path,
                               !.partial = IF compiling.pc = "stored" THEN { compiling.raw }
                                           ELSE { } ]
  /\ UNCHANGED << vocab, middleware, derived, routes, mounts, root, compiled, compileErr,
                  compiling >>

\* ServeHTTP from r.state.root.matchRoute(path) to the handler or the 405
\* answer, on the tree rt that the loads return, matched being the match.
ServeMatchOn(rt, matched) ==
  IF matched.ok /\ DOMAIN matched.leaf.handlers # { }
    THEN /\ resp' = serveMatched(rt, serving.method, serving.path, matched)
         /\ serving' = [ serving EXCEPT
                            !.pc = "idle", !.partial = { }, !.walked = @ \cup { rt } ]
    ELSE /\ resp' = NoResponse
         /\ serving' = [ serving EXCEPT !.pc = "mount", !.walked = @ \cup { rt } ]

ServeMatch ==
  /\ serving.pc = "match"
  /\ \E rt \in { root } \cup serving.partial :
       ServeMatchOn(rt, matchRoute(rt, serving.path))
  /\ UNCHANGED << vocab, middleware, derived, routes, mounts, root, compiled, compileErr, req,
                  compiling >>

\* ServeHTTP from r.state.root.findMount(path) on: no route was found.
ServeMount ==
  /\ serving.pc = "mount"
  /\ \E rt \in { root } \cup serving.partial :
       /\ resp' = serveMatched(rt, serving.method, serving.path,
                               [ leaf |-> NoNode, params |-> << >>, paramCount |-> 0,
                                 ok |-> FALSE ])
       /\ serving' = [ serving EXCEPT
                          !.pc = "idle", !.partial = { }, !.walked = @ \cup { rt } ]
  /\ UNCHANGED << vocab, middleware, derived, routes, mounts, root, compiled, compileErr, req,
                  compiling >>

\* The application served while it registers and compiles.
InitRace == Init /\ vocab = 8

\* The registering goroutine makes its calls one after the other.
NextRace ==
  \/ /\ compiling.pc = "idle"
     /\ \E method \in Vocabs[vocab].methods, pattern \in Vocabs[vocab].patterns :
          Handle(method, pattern, RouteHandler(method, pattern))
  \/ /\ compiling.pc = "idle"
     /\ \E prefix \in Vocabs[vocab].prefixes : Mount(prefix, MountHandler(prefix))
  \/ CompileBuild
  \/ CompileStoreRoot
  \/ CompileStoreCompiled
  \/ \E method \in Vocabs[vocab].asks, path \in Vocabs[vocab].paths : ServeCheck(method, path)
  \/ ServeMatch
  \/ ServeMount

SpecRace == InitRace /\ [][NextRace]_vars

(***************************************************************************)
(* Reference semantics the properties compare the router with.             *)
(***************************************************************************)

\* Some registration of r.state.routes has this method and pattern.
Registered(method, pattern) ==
  \E i \in 1..Len(routes) : routes[i].method = method /\ routes[i].pattern = pattern

\* Some registration of r.state.mounts has this prefix.
Mounted(prefix) == \E i \in 1..Len(mounts) : mounts[i].prefix = prefix

\* The ordered captures of a routeMatch.
Captures(m) == SubSeq(m.params, 1, m.paramCount)

\* The routeMatch m is the leaf of the route (method, pattern), reached with
\* exactly the captures caps.
Resolves(m, method, pattern, caps) ==
  /\ m.ok
  /\ method \in DOMAIN m.leaf.handlers
  /\ m.leaf.handlers[method] = RouteHandler(method, pattern)
  /\ Captures(m) = caps

\* The walk of the validating trie from node n at offset pos of the path,
\* one "/"-delimited segment at a time: the static child named by the
\* segment, then the parameter edge, then the catch-all edge, falling back
\* to the next when the one before fails below.  [leaf, count, ok, params].
RECURSIVE walkTrie(_, _, _, _, _)
RECURSIVE walkTrieParam(_, _, _, _, _, _)

walkTrieCatchAll(n, path, pos, params, count) ==
  LET ca == catchAllAt(path, pos)
      cm == matchParamSegment(ca.rest, << >>, << >>, n.catchAllChild.matcher)
      st == storeParam(params, count, [ name |-> n.catchAllChild.name, value |-> cm.value ])
  IN  IF n.catchAllChild # NoEdge /\ ca.ok /\ cm.ok /\ st.ok
        THEN [ leaf |-> n.catchAllChild.next, count |-> st.count, ok |-> TRUE,
               params |-> st.params ]
        ELSE noMatch(params)

walkTrie(n, path, pos, params, count) ==
  IF pos = Len(path)
    THEN [ leaf |-> n, count |-> count, ok |-> TRUE, params |-> params ]
    ELSE walkTrieParam(n, path, pos, params, count,
           IF nextSegmentAt(path, pos).ok
              /\ nextSegmentAt(path, pos).seg \in DOMAIN n.staticChildren
             THEN walkTrie(n.staticChildren[nextSegmentAt(path, pos).seg], path,
                           nextSegmentAt(path, pos).nextPos, params, count)
             ELSE noMatch(params))

walkTrieParam(n, path, pos, params, count, st) ==
  IF st.ok THEN st
  ELSE
    LET sg  == nextSegmentAt(path, pos)
        pm  == matchParamSegment(sg.seg, n.paramChild.prefix, n.paramChild.suffix,
                                 n.paramChild.matcher)
        sto == storeParam(st.params, count, [ name |-> n.paramChild.name, value |-> pm.value ])
        pr  == walkTrie(n.paramChild.next, path, sg.nextPos, sto.params, sto.count)
    IN  IF n.paramChild # NoEdge /\ sg.ok /\ pm.ok /\ sto.ok
          THEN IF pr.ok THEN pr ELSE walkTrieCatchAll(n, path, pos, pr.params, count)
          ELSE walkTrieCatchAll(n, path, pos, st.params, count)

\* The walk of the validating trie for a whole path, as a routeMatch.
walkTrieRoute(n, path) ==
  routeMatch(n, path, walkTrie(n, path, 0, [ i \in 1..ParamCap |-> ZeroParam ], 0))

\* What a routeMatch means to a request: the leaf's handlers and the ordered
\* captures, or no match.  A leaf without handlers serves no request and
\* counts as no match.
Outcome(m) ==
  IF m.ok /\ DOMAIN m.leaf.handlers # {}
    THEN [ handlers |-> m.leaf.handlers, captures |-> Captures(m) ]
    ELSE [ handlers |-> << >>, captures |-> << >> ]

\* The compiled pattern's segments from i (1-based) on match the path from
\* offset pos on, segment by segment.
RECURSIVE patternMatchesFrom(_, _, _, _)
patternMatchesFrom(segments, path, i, pos) ==
  IF i > Len(segments) THEN pos = Len(path)
  ELSE IF segments[i].kind = segmentCatchAll
    THEN /\ catchAllAt(path, pos).ok
         /\ matchParamSegment(catchAllAt(path, pos).rest, << >>, << >>,
                              segments[i].matcher).ok
  ELSE /\ nextSegmentAt(path, pos).ok
       /\ IF segments[i].kind = segmentStatic
            THEN nextSegmentAt(path, pos).seg = segments[i].literal
            ELSE matchParamSegment(nextSegmentAt(path, pos).seg, segments[i].prefix,
                                   segments[i].suffix, segments[i].matcher).ok
       /\ patternMatchesFrom(segments, path, i + 1, nextSegmentAt(path, pos).nextPos)

\* The pattern, read on its own, matches the path.
patternMatchesCompiled(cp, path) ==
  /\ cp.err = NoErr
  /\ IF path = << "/" >> THEN cp.segments = << >>
     ELSE patternMatchesFrom(cp.segments, path, 1, 0)

PatternMatches(pattern, path) == patternMatchesCompiled(compilePattern(pattern), path)

\* The path equals the prefix or continues with "/" right after it.
UnderPrefix(prefix, path) ==
  \/ path = prefix
  \/ /\ HasPrefix(path, prefix)
     /\ Len(path) > Len(prefix)
     /\ At(path, Len(prefix)) = "/"

\* The prefix a mount stands for in the tree: the root pattern "/" is the
\* root itself, the empty prefix, which every path continues with "/".
TreePrefix(prefix) == IF prefix = << "/" >> THEN << >> ELSE prefix

\* The handler mounted at the longest of the prefixes ps, or NoHandler when
\* ps is empty.
LongestMount(ps) ==
  IF ps = {} THEN NoHandler
  ELSE MountHandler(CHOOSE p \in ps : \A q \in ps : Len(q) <= Len(p))

\* The request of the last ServeHTTP call was served by the compiled router.
Served == compiled /\ req # NoRequest /\ resp # NoResponse

(***************************************************************************)
(* Properties.                                                             *)
(***************************************************************************)

\* The routeMatch m is a leaf that carries the handler of (method, pattern).
LeafOf(m, method, pattern) ==
  /\ m.ok
  /\ method \in DOMAIN m.leaf.handlers
  /\ m.leaf.handlers[method] = RouteHandler(method, pattern)

\* C1: static beats parameter beats catch-all.  With /users/me, /users/{id}
\* and /users/{rest...} compiled together, matchRoute resolves /users/me to
\* the static leaf with no capture, /users/42 to the parameter leaf with the
\* single capture id=42, and /users/a/b to the catch-all leaf with the
\* single capture rest=a/b.
C1_Precedence ==
  (compiled /\ Registered(GET, Input.PUsersMe) /\ Registered(GET, Input.PUsersId)
            /\ Registered(GET, Input.PUsersRest))
  => /\ Resolves(matchRoute(root, Input.PUsersMe), GET, Input.PUsersMe, << >>)
     /\ Resolves(matchRoute(root, Input.UUsers42), GET, Input.PUsersId,
                 << [ name |-> << "i", "d" >>, value |-> << "4", "2" >> ] >>)
     /\ Resolves(matchRoute(root, Input.UUsersAB), GET, Input.PUsersRest,
                 << [ name |-> << "r", "e", "s", "t" >>, value |-> << "a", "/", "b" >> ] >>)

\* The three routes are compiled and GET /users/a/b ran the catch-all
\* handler with rest=a/b.
C1_Witness ==
  /\ compiled
  /\ Registered(GET, Input.PUsersMe) /\ Registered(GET, Input.PUsersId) /\ Registered(GET, Input.PUsersRest)
  /\ req = [ method |-> GET, path |-> Input.UUsersAB ]
  /\ resp.kind = "route"
  /\ resp.handler = RouteHandler(GET, Input.PUsersRest)
  /\ resp.pathValues = [ k \in { << "r", "e", "s", "t" >> } |-> << "a", "/", "b" >> ]

\* C2: compaction does not change behaviour.  For the routes the validating
\* trie accepted and every request path, matchRoute on the compacted radix
\* tree has the outcome (the leaf's handlers and the ordered captures, or no
\* match) of the segment-by-segment walk of the validating trie.
C2_CompactionPreservesMatching ==
  compiled =>
    \A path \in Vocabs[vocab].paths :
      Outcome(matchRoute(root, path))
        = Outcome(walkTrieRoute(compileTrie(routes, mounts).root, path))

\* The names and values of the first ParamCap captures of
\* /1/2/3/4/5/6/7/8/9 under /{a}/{b}/{c}/{d}/{e}/{f}/{g}/{h}/{i}.
FirstCaptures ==
  [ i \in 1..ParamCap |->
      [ name  |-> << << "a", "b", "c", "d", "e", "f", "g", "h" >>[i] >>,
        value |-> << << "1", "2", "3", "4", "5", "6", "7", "8" >>[i] >> ] ]

\* C3: a path that matches a route with more than 8 parameters still
\* matches, with the first 8 captures in encounter order; the ninth is
\* dropped.
C3_CapturesBeyondEighthDropped ==
  (compiled /\ Registered(GET, Input.PNine))
  => Resolves(matchRoute(root, Input.UNine), GET, Input.PNine, FirstCaptures)

\* The names of the parameters without a constraint in the registered
\* patterns.
UnconstrainedParams ==
  { seg.name : seg \in
      { sg \in UNION { { compilePattern(routes[i].pattern).segments[k]
                         : k \in 1..Len(compilePattern(routes[i].pattern).segments) }
                       : i \in 1..Len(routes) }
        : sg.kind = segmentParam /\ sg.matcher = NoMatcher } }

\* No capture of the routeMatch m under an unconstrained parameter is empty.
NoEmptyParam(m) ==
  m.ok => \A i \in 1..m.paramCount :
            m.params[i].name \in UnconstrainedParams => m.params[i].value # << >>

\* C4: a parameter without a constraint matches only a non-empty run of
\* bytes: no path is matched with an empty value captured for it
\* (/users/{id} does not match /users/, /a/{x}/b does not match /a//b).
C4_ParamNeverEmpty ==
  compiled => \A path \in Vocabs[vocab].paths : NoEmptyParam(matchRoute(root, path))

\* C5: a segment with several parameters is matched left to right around
\* its literals, each parameter captured under its own name: with route
\* /{a}-{b}, /1-2 gives a=1 and b=2, and /12 does not match.
C5_MultiParamSegment ==
  (compiled /\ Registered(GET, Input.PADashB))
  => /\ Resolves(matchRoute(root, Input.U1Dash2), GET, Input.PADashB,
                 << [ name |-> << "a" >>, value |-> << "1" >> ],
                    [ name |-> << "b" >>, value |-> << "2" >> ] >>)
     /\ ~LeafOf(matchRoute(root, Input.U12), GET, Input.PADashB)

\* The header value lists exactly the methods, each once, in ascending
\* order, joined by ", ".
AllowLists(allow, methods) ==
  \E ss \in MapOrders(methods) :
    /\ \A i \in 1..(Len(ss) - 1) : StrLess(ss[i], ss[i + 1])
    /\ allow = JoinCommaSpace(ss)

\* The answer to a request whose path matched m, a leaf with handlers but
\* none for the request's method.
MethodNotAllowedAt(m) ==
  (m.ok /\ DOMAIN m.leaf.handlers # {} /\ req.method \notin DOMAIN m.leaf.handlers)
  => /\ resp.kind = "methodNotAllowed"
     /\ AllowLists(resp.allow, DOMAIN m.leaf.handlers)

\* C6: when the path matches a leaf with handlers but none for the request
\* method, ServeHTTP answers method-not-allowed with Allow listing exactly
\* the leaf's methods, each once, ascending, joined by ", "; GET and POST on
\* /users and DELETE /users give "GET, POST".
C6_AllowHeader ==
  Served =>
    /\ MethodNotAllowedAt(matchRoute(root, req.path))
    /\ (Registered(GET, Input.PUsers) /\ Registered(POST, Input.PUsers)
        /\ req = [ method |-> DELETE, path |-> Input.PUsers ])
       => /\ resp.kind = "methodNotAllowed"
          /\ resp.allow = << "G", "E", "T", ",", " ", "P", "O", "S", "T" >>

\* POST was registered on /users before GET, and DELETE /users was answered
\* method-not-allowed with Allow "GET, POST".
C6_Witness ==
  /\ Served
  /\ Len(routes) >= 2
  /\ routes[1] = [ method |-> POST, pattern |-> Input.PUsers, handler |-> RouteHandler(POST, Input.PUsers),
                  middleware |-> << >> ]
  /\ Registered(GET, Input.PUsers)
  /\ req = [ method |-> DELETE, path |-> Input.PUsers ]
  /\ resp.kind = "methodNotAllowed"
  /\ resp.allow = << "G", "E", "T", ",", " ", "P", "O", "S", "T" >>

\* C7: the catch-all takes the whole rest of the path after one required
\* "/", slashes included.  /files/{path...} matches /files/a/b/c.txt with
\* path=a/b/c.txt and /files/ with the empty path, and /files does not reach
\* its leaf: without a route /files, /files has no handler.
C7_CatchAllBoundary ==
  (compiled /\ Registered(GET, Input.PFilesPath))
  => /\ Resolves(matchRoute(root, Input.UFilesABC), GET, Input.PFilesPath,
                 << [ name  |-> << "p", "a", "t", "h" >>,
                      value |-> << "a", "/", "b", "/", "c", ".", "t", "x", "t" >> ] >>)
     /\ Resolves(matchRoute(root, Input.UFilesSlash), GET, Input.PFilesPath,
                 << [ name |-> << "p", "a", "t", "h" >>, value |-> << >> ] >>)
     /\ ~LeafOf(matchRoute(root, Input.PFiles), GET, Input.PFilesPath)
     /\ ~Registered(GET, Input.PFiles)
        => Outcome(matchRoute(root, Input.PFiles)) = Outcome(noMatch(<< >>))

\* GET /files/ ran the catch-all handler with the empty path.
C7_Witness ==
  /\ Served
  /\ req = [ method |-> GET, path |-> Input.UFilesSlash ]
  /\ resp.kind = "route"
  /\ resp.handler = RouteHandler(GET, Input.PFilesPath)
  /\ resp.pathValues = [ k \in { << "p", "a", "t", "h" >> } |-> << >> ]

\* No two registrations have the same method and pattern.
DistinctRoutes ==
  \A i, j \in 1..Len(routes) :
    i # j => routes[i].method # routes[j].method \/ routes[i].pattern # routes[j].pattern

\* C8: a static pattern and the same pattern with a trailing slash are
\* distinct routes.  Registrations that differ in method or pattern (P and
\* P/ among them) never make Compile report a duplicate, and the handler of
\* a static route runs only for the path equal to its pattern, so a request
\* for P/ is never served by the route P, nor one for P by the route P/.
C8_TrailingSlashDistinct ==
  /\ DistinctRoutes => compileTrie(routes, mounts).err # "duplicate route"
  /\ (Served /\ resp.kind = "route" /\ ~ContainsByte(resp.handler.route, "{"))
     => req.path = resp.handler.route

\* /users and /users/ are both compiled for GET, and GET /users/ ran the
\* handler of /users/.
C8_Witness ==
  /\ Served
  /\ Registered(GET, Input.PUsers) /\ Registered(GET, Input.PUsersSlash)
  /\ req = [ method |-> GET, path |-> Input.PUsersSlash ]
  /\ resp.kind = "route"
  /\ resp.handler = RouteHandler(GET, Input.PUsersSlash)

\* Some registered route for the method has a pattern that matches the path.
RouteMatches(method, path) ==
  \E i \in 1..Len(routes) :
    routes[i].method = method /\ PatternMatches(routes[i].pattern, path)

\* Some mounted prefix is one the path equals or continues with "/".
UnderMount(path) ==
  \E i \in 1..Len(mounts) : UnderPrefix(TreePrefix(mounts[i].prefix), path)

\* C9: a mount is consulted only when no route leaf handles the request.
\* For a request whose path lies under a mounted prefix: whenever a
\* registered route for the request's method matches the path, a route's
\* handler runs and not the mount's; when no route matches the path, the
\* mount's handler runs.
C9_RoutesBeforeMounts ==
  (Served /\ UnderMount(req.path)) =>
    /\ RouteMatches(req.method, req.path)
       => /\ resp.kind = "route"
          /\ resp.handler.method = req.method
          /\ PatternMatches(resp.handler.route, req.path)
    /\ (\A i \in 1..Len(routes) : ~PatternMatches(routes[i].pattern, req.path))
       => resp.kind = "mount"

\* C10: findMount returns the handler of the longest mounted prefix that the
\* path equals or continues with "/" right after, the root pattern "/"
\* standing for the empty prefix, and none when there is no such prefix: a
\* prefix that ends inside a segment of the path is never chosen, and a
\* shorter mount stays chosen when a longer one matches only inside a
\* segment.
C10_LongestMountAtBoundary ==
  compiled =>
    \A path \in Vocabs[vocab].paths :
      findMount(root, path)
        = LongestMount({ p \in { mounts[i].prefix : i \in 1..Len(mounts) }
                         : UnderPrefix(TreePrefix(p), path) })

\* /a and /a/b are mounted, and /a/bc, which continues /a/b inside a
\* segment, ran the handler mounted at /a.
C10_Witness ==
  /\ Served
  /\ Mounted(Input.PA) /\ Mounted(Input.PAB)
  /\ req.path = Input.UABc
  /\ resp.kind = "mount"
  /\ resp.handler = MountHandler(Input.PA)

\* C10 with every prefix read as written, "/" included: the path equals the
\* prefix or has "/" right after it.
C10_PrefixAsWritten ==
  compiled =>
    \A path \in Vocabs[vocab].paths :
      findMount(root, path)
        = LongestMount({ p \in { mounts[i].prefix : i \in 1..Len(mounts) }
                         : UnderPrefix(p, path) })

\* Two compiled segments name the same edge of a trie node.
SameEdge(a, b) ==
  /\ a.kind = b.kind
  /\ IF a.kind = segmentStatic THEN a.literal = b.literal
     ELSE IF a.kind = segmentParam
       THEN a.name = b.name /\ a.expr = b.expr /\ a.prefix = b.prefix /\ a.suffix = b.suffix
     ELSE a.name = b.name

\* The positions at which the segment lists s1 and s2 part.
Partings(s1, s2) ==
  { k \in 1..Len(s1) : k <= Len(s2) /\ ~SameEdge(s1[k], s2[k])
                       /\ \A j \in 1..(k - 1) : SameEdge(s1[j], s2[j]) }

\* What inserting (m2, s2) into the trie that holds only (m1, s1) must
\* return: a conflict where the two part at segments of the same non-static
\* kind, a duplicate when they end at the same node with the same method, and
\* no error otherwise.
SecondInsert(m1, s1, m2, s2) ==
  IF \E k \in Partings(s1, s2) : s1[k].kind = segmentParam /\ s2[k].kind = segmentParam
    THEN "route conflict: existing parameter"
  ELSE IF \E k \in Partings(s1, s2) : s1[k].kind = segmentCatchAll /\ s2[k].kind = segmentCatchAll
    THEN "route conflict: existing catch-all"
  ELSE IF Partings(s1, s2) = {} /\ Len(s1) = Len(s2) /\ m1 = m2 THEN "duplicate route"
  ELSE NoErr

\* The first two registrations, both with valid patterns cp1 and cp2, fail
\* or pass in Compile as SecondInsert says.
FirstTwoInsertAs(cp1, cp2) ==
  (cp1.err = NoErr /\ cp2.err = NoErr)
  => compileRoutes(newNode, SubSeq(routes, 1, 2), 1).err
       = SecondInsert(routes[1].method, cp1.segments, routes[2].method, cp2.segments)

\* C11: insertRoute fails with a conflict error when a parameter segment
\* meets an existing parameter edge that differs in name, expression, prefix
\* or suffix, and when a catch-all segment meets an existing catch-all edge
\* of another name; an identical edge is reused and the insertion goes on.
C11_EdgeConflicts ==
  Len(routes) >= 2
  => FirstTwoInsertAs(compilePattern(routes[1].pattern), compilePattern(routes[2].pattern))

\* Compile refused /users/{id}.json after /users/{id}: the suffix differs.
C11_Witness ==
  /\ Len(routes) = 2
  /\ routes[1].pattern = Input.PUsersId
  /\ routes[2].pattern = Input.usersIdJson
  /\ compileErr = "route conflict: existing parameter"
  /\ ~compiled

\* Registration j repeats the method and pattern of an earlier one.
Repeats(j) ==
  \E i \in 1..(j - 1) :
    routes[i].method = routes[j].method /\ routes[i].pattern = routes[j].pattern

\* The methods registered for the pattern.
MethodsOf(pattern) ==
  { routes[i].method : i \in { k \in 1..Len(routes) : routes[k].pattern = pattern } }

\* The leaf m holds, for the static pattern, exactly one handler per method
\* registered for it: that registration's.
OneHandlerPerMethod(m, pattern) ==
  /\ m.ok
  /\ DOMAIN m.leaf.handlers = MethodsOf(pattern)
  /\ \A method \in MethodsOf(pattern) :
       m.leaf.handlers[method] = RouteHandler(method, pattern)

\* C12: registering a method a second time at the same trie node fails with
\* a duplicate-route error: when the registrations before j compile and j
\* repeats one of them, the routes up to j fail as a duplicate.  Different
\* methods on one pattern compile, and its node keeps one handler for each.
C12_DuplicateRoute ==
  /\ \A j \in 2..Len(routes) :
       (Repeats(j) /\ compileRoutes(newNode, SubSeq(routes, 1, j - 1), 1).err = NoErr)
       => compileRoutes(newNode, SubSeq(routes, 1, j), 1).err = "duplicate route"
  /\ compiled
     => \A i \in 1..Len(routes) :
          ~ContainsByte(routes[i].pattern, "{")
          => OneHandlerPerMethod(matchRoute(root, routes[i].pattern), routes[i].pattern)

\* Compile refused the second GET /users as a duplicate.
C12_Witness ==
  /\ Len(routes) = 2
  /\ routes[1] = [ method |-> GET, pattern |-> Input.PUsers, handler |-> RouteHandler(GET, Input.PUsers),
                  middleware |-> << >> ]
  /\ routes[2] = routes[1]
  /\ compileErr = "duplicate route"
  /\ ~compiled

\* The text t occurs in s.
Contains(s, t) == \E i \in 0..(Len(s) - Len(t)) : Slice(s, i, i + Len(t)) = t

\* The raw segment holds a catch-all span: braces and "...".
HasCatchAllSpan(raw) == ContainsByte(raw, "{") /\ Contains(raw, Dots)

\* The raw segment is a catch-all {name...} and nothing else: the name is
\* made of letters, so it holds no literal text and no expression.
WholeCatchAll(raw) ==
  /\ Len(raw) >= 6
  /\ At(raw, 0) = "{"
  /\ HasSuffix(raw, Dots \o << "}" >>)
  /\ \A i \in 1..(Len(raw) - 5) : At(raw, i) \in Lower \cup Upper

\* The raw segments of a pattern that starts with "/".
RawSegments(pattern) == SplitSlash(From(pattern, 1))

\* compilePattern's answer cp for the pattern: a pattern with a catch-all
\* span is accepted only if the span is a whole raw segment and the last
\* one, and then the last compiled segment is the catch-all of that name.
CatchAllPlacedAs(pattern, raws, cp) ==
  /\ (\E k \in 1..Len(raws) :
        HasCatchAllSpan(raws[k]) /\ ~(WholeCatchAll(raws[k]) /\ k = Len(raws)))
     => cp.err # NoErr
  /\ (WholeCatchAll(raws[Len(raws)])
      /\ \A k \in 1..(Len(raws) - 1) : ~ContainsByte(raws[k], "{") /\ ~ContainsByte(raws[k], "}"))
     => /\ cp.err = NoErr
        /\ cp.segments[Len(raws)].kind = segmentCatchAll
        /\ cp.segments[Len(raws)].name = Slice(raws[Len(raws)], 1, Len(raws[Len(raws)]) - 4)

\* C13: compilePattern accepts a catch-all {name...} only as a whole raw
\* segment that is the last of the pattern; a catch-all followed by a
\* segment, one with literal text before or after it in its segment, and
\* one combined with a constraint expression are errors.
C13_CatchAllPlacement ==
  \A i \in 1..Len(routes) :
    CatchAllPlacedAs(routes[i].pattern, RawSegments(routes[i].pattern),
                     compilePattern(routes[i].pattern))

\* Compile refused /files/{path...}/x, registered after /files/{path...}.
C13_Witness ==
  /\ Len(routes) = 2
  /\ routes[1].pattern = Input.PFilesPath
  /\ routes[2].pattern = Input.catchAllThenSegment
  /\ compileErr = "catch-all must be the last segment"
  /\ ~compiled

\* The step is a call of Handle or Mount: a registration was appended.
RegistersStep == routes' # routes \/ mounts' # mounts

\* The step is a call of Compile: it returns its error and registers and
\* serves nothing.
CompileStep ==
  UNCHANGED << routes, mounts, middleware, derived >> /\ req' = NoRequest /\ vars' # vars

\* The step is a call of ServeHTTP.
ServeStep == req' # NoRequest

\* The flag compiled says that a Compile has succeeded since the most recent
\* Handle or Mount, and root is the tree of the last Compile that succeeded:
\* a registration clears the flag and keeps the tree, a Compile that
\* succeeds sets the flag and builds the tree from the registrations, a
\* Compile that fails happens only with the flag cleared and keeps both, and
\* ServeHTTP keeps both, panics exactly when the flag is cleared and
\* otherwise answers from the tree.
ServesLastCompiledStep ==
  /\ RegistersStep => ~compiled' /\ root' = root
  /\ (CompileStep /\ compileErr' = NoErr)
     => /\ compiled'
        /\ compileTrie(routes, mounts).err = NoErr
        /\ root' \in BuildRadix(compileTrie(routes, mounts).root)
  /\ (CompileStep /\ compileErr' # NoErr)
     => ~compiled /\ ~compiled' /\ root' = root
  /\ ServeStep
     => /\ compiled' = compiled /\ root' = root
        /\ resp'.kind = "panic" <=> ~compiled
        /\ compiled => resp' = serveMatched(root, req'.method, req'.path,
                                            matchRoute(root, req'.path))

\* C14: after any sequence of Handle, Mount and Compile calls, ServeHTTP
\* panics exactly when no Compile has succeeded since the most recent Handle
\* or Mount (never compiled, or the last Compile failed); otherwise it
\* serves from the tree built by that last successful Compile.
C14_PanicsUnlessCompiled == [][ServesLastCompiledStep]_vars

\* A Compile succeeded, a route was registered after it, the next Compile
\* failed, and the request that followed panicked with the earlier tree
\* still in place.
C14_Witness ==
  /\ root # NoNode
  /\ compileErr \notin { NoErr, "none" }
  /\ ~compiled
  /\ req # NoRequest
  /\ resp.kind = "panic"

\* The error Compile returns for the registrations made so far is the error
\* it returns after one more Handle or Mount: the registration it belongs to
\* is still the earliest invalid one.
FirstErrorKeptStep ==
  (RegistersStep /\ compileTrie(routes, mounts).err # NoErr)
  => compileTrie(routes', mounts').err = compileTrie(routes, mounts).err

\* C15: Compile fails fast on the first error in registration order: the
\* error belongs to the earliest invalid registration in the order the
\* Handle and Mount calls were made, and no registration made after that one
\* is examined or can change the reported error.
C15_FirstErrorInCallOrder == [][FirstErrorKeptStep]_vars

\* Every tree of the set resolves every request of the vocabulary, and every
\* registered pattern taken as a path, as the tree rt does.
ResolveAs(trees, rt) ==
  \A t \in trees :
    \A method \in Vocabs[vocab].asks,
       path \in Vocabs[vocab].paths \cup { routes[i].pattern : i \in 1..Len(routes) } :
      serveHTTP(TRUE, t, method, path) = serveHTTP(TRUE, rt, method, path)

\* C16: compilation is a pure function of the registration sequence: the
\* trees that Compile can build from the same registrations, whatever order
\* the static children of the trie are visited in, resolve every (method,
\* path) identically (handler, captures, not-found or method-not-allowed).
C16_CompilationIsAFunction ==
  compiled => ResolveAs(BuildRadix(compileTrie(routes, mounts).root), root)

\* A compiled router whose trie has static siblings: the visits in
\* different orders leave different nodes before finalizeRadix sorts them.
C16_Witness ==
  /\ compiled
  /\ Cardinality(BuildRadixNodes(compileTrie(routes, mounts).root)) > 1
  /\ resp.kind = "route"

\* The radix tree is as finalizeRadix leaves it: static edges sorted and
\* indexed at every node.
FullyBuilt(t) == t = finalizeRadix(t)

\* C17: a ServeHTTP call that runs concurrently with Handle, Mount or
\* Compile either panics as not compiled or matches against a tree that a
\* finished Compile fully built and indexed; it never walks a tree that is
\* still being inserted into, compacted or finalized.
C17_NeverPartialTree == \A t \in serving.walked : FullyBuilt(t)

\* C18: serving is read-only: matchRoute, findMount and ServeHTTP change no
\* radix node, edge or handler map (root), no registration list (routes,
\* mounts) and not the compiled flag.
C18_ServingReadOnly ==
  [][ServeStep => UNCHANGED << root, routes, mounts, compiled >>]_vars

\* A request was matched to a route's handler and its path values were set.
C18_Witness ==
  /\ compiled
  /\ req # NoRequest
  /\ resp.kind = "route"
  /\ resp.pathValues # << >>

\* The compiled pattern is a static segment followed by a segment of one
\* parameter, with or without literal text around it.
OneAffixedParam(cp) ==
  /\ cp.err = NoErr
  /\ Len(cp.segments) = 2
  /\ cp.segments[1].kind = segmentStatic
  /\ cp.segments[2].kind = segmentParam
  /\ Len(cp.segments[2].tmpl.params) = 1

\* The inner texts for which the path is lead, prefix, inner text, suffix,
\* the inner text lying in one segment and satisfying the matcher if any.
InnerTexts(path, lead, pe) ==
  { inner \in { Slice(path, a, b) : a \in 0..Len(path), b \in 0..Len(path) } :
      /\ path = lead \o pe.prefix \o inner \o pe.suffix
      /\ ~ContainsByte(inner, "/")
      /\ pe.matcher = NoMatcher \/ Match(pe.matcher, inner) }

\* The answer to the request, the only route having the compiled pattern cp
\* of that shape: the handler with the inner text captured, or not found.
AffixedParamServedAs(cp, inners) ==
  IF inners = { } THEN resp.kind = "notFound"
  ELSE /\ resp.kind = "route"
       /\ resp.handler = routes[1].handler
       /\ \E inner \in inners : resp.pathValues = (cp.segments[2].name :> inner)

AffixedParamServed(cp) ==
  OneAffixedParam(cp)
  => AffixedParamServedAs(cp, InnerTexts(req.path,
                                         << "/" >> \o cp.segments[1].literal \o << "/" >>,
                                         cp.segments[2]))

\* C19: a parameter segment with a literal prefix and suffix matches a path
\* segment exactly when the segment is at least as long as prefix plus
\* suffix, starts with the prefix, ends with the suffix and the text between
\* satisfies the matcher; the captured value is that text.
C19_AffixedParam ==
  (compiled /\ req # NoRequest /\ Len(routes) = 1 /\ mounts = << >>
   /\ req.method = routes[1].method)
  => AffixedParamServed(compilePattern(routes[1].pattern))

\* /api/{name:[0-9]+}.json served /api/123.json with name = 123.
C19_Witness ==
  /\ compiled
  /\ Len(routes) = 1
  /\ routes[1].pattern = Input.apiNameJson
  /\ req.path = Input.api123Json
  /\ resp.kind = "route"
  /\ resp.pathValues = (<< "n", "a", "m", "e" >> :> << "1", "2", "3" >>)

\* The calls that serve a request matched to the route rt, the request
\* having these path values: the middlewares of rt in the order they were
\* given to Use, then the handler given to Handle, each seeing the values.
CallsInUseOrder(rt, values) ==
  [ k \in 1..(Len(rt.middleware) + 1) |->
      [ by |-> IF k <= Len(rt.middleware) THEN rt.middleware[k] ELSE rt.handler,
        pathValues |-> values ] ]

\* A route is registered with the middlewares used before its Handle call,
\* and a request matched to a route runs them as CallsInUseOrder says, with
\* the parameters of the pattern already among the path values.
MiddlewareOrderStep ==
  /\ routes' # routes => routes'[Len(routes')].middleware = middleware
  /\ (ServeStep /\ resp'.kind = "route")
     => \E i \in 1..Len(routes) :
          /\ routes[i].method = req'.method
          /\ resp'.calls = CallsInUseOrder(routes[i], resp'.pathValues)
          /\ ContainsByte(routes[i].pattern, "{") => resp'.pathValues # << >>

\* C20: middleware runs in registration order around the route handler: for
\* a route registered after Use(A, B, C), every matched request runs A, B,
\* C, then the handler, and the path values are set when A runs.
C20_MiddlewareOrder == [][MiddlewareOrderStep]_vars

\* GET /users/42 on /users/{id} registered after Use(A, B, C): four calls,
\* the first by A with id = 42, the last by the route's handler.
C20_Witness ==
  /\ resp.kind = "route"
  /\ Len(resp.calls) = 4
  /\ resp.calls[1] = [ by |-> "A", pathValues |-> (<< "i", "d" >> :> << "4", "2" >>) ]
  /\ resp.calls[2].by = "B"
  /\ resp.calls[3].by = "C"
  /\ resp.calls[4].by = RouteHandler(GET, Input.PUsersId)

\* The middleware field of the router through which the route rt was
\* registered, told by the handler the application gave to Handle.
RegisteredThrough(rt) ==
  IF "via" \in DOMAIN rt.handler THEN derived[rt.handler.via] ELSE middleware

\* Registrations are kept as they were made, a new one carries a copy of the
\* middleware field of the router it was made through, Use and With write
\* the field of one router only, With starting from a copy of its
\* receiver's field, and a request served after a Compile runs the
\* registration of its method and path with the middlewares that it carries,
\* whichever router registered it.
DerivedScopeStep ==
  /\ Len(routes') >= Len(routes)
  /\ \A i \in 1..Len(routes) : routes'[i] = routes[i]
  /\ routes' # routes
     => /\ routes'[Len(routes')].middleware = RegisteredThrough(routes'[Len(routes')])
        /\ UNCHANGED << middleware, derived >>
  /\ middleware' # middleware => derived' = derived
  /\ derived' # derived
     => /\ middleware' = middleware
        /\ Len(derived') >= Len(derived)
        /\ \A j, k \in 1..Len(derived) :
             (derived'[j] # derived[j] /\ derived'[k] # derived[k]) => j = k
        /\ Len(derived') > Len(derived)
           => /\ \A k \in 1..Len(derived) : derived'[k] = derived[k]
              /\ \E k \in 0..Len(derived), mw \in Vocabs[vocab].withs :
                   derived'[Len(derived')] = middlewareOf(k) \o mw
  /\ (ServeStep /\ compiled /\ UNCHANGED << routes, middleware, derived >>)
     => \A i \in 1..Len(routes) :
          (routes[i].method = req'.method /\ routes[i].pattern = req'.path)
          => /\ resp'.kind = "route"
             /\ resp'.calls = CallsInUseOrder(routes[i], resp'.pathValues)

\* C21: a route carries the middleware that was on the router it was
\* registered through when it was registered: With, Group and a later Use
\* change no registration and no other router, and the routes of all the
\* derived routers are compiled and served from the one shared set.
C21_DerivedRouterScope == [][DerivedScopeStep]_vars

\* After Use(A, B) on the parent, With(C) and a Group: the parent's /users
\* carries A, B, the /api registered through the With router carries A, B,
\* C, and GET /api runs A, B, C and the handler given to that router.
C21_Witness ==
  /\ Len(derived) = 2
  /\ derived[2] = << "A", "B" >>
  /\ \E i, j \in 1..Len(routes) :
       /\ routes[i].pattern = Input.PUsers
       /\ routes[i].handler = RouteHandler(GET, Input.PUsers)
       /\ routes[i].middleware = << "A", "B" >>
       /\ routes[j].handler = DerivedHandler(1, GET, Input.PApi)
       /\ routes[j].middleware = << "A", "B", "C" >>
  /\ req.path = Input.PApi
  /\ resp.kind = "route"
  /\ Len(resp.calls) = 4
  /\ resp.calls[1].by = "A"
  /\ resp.calls[3].by = "C"
  /\ resp.calls[4].by = DerivedHandler(1, GET, Input.PApi)

\* The request was answered method-not-allowed, by the router itself: no
\* handler of a route or of a mount ran.
AnsweredMethodNotAllowed ==
  /\ resp.kind = "methodNotAllowed"
  /\ resp.handler = NoHandler
  /\ resp.calls = << >>

\* C22: the method is looked up only in the leaf that matchRoute selected.
\* When that leaf has handlers but none for the request's method the answer
\* is method-not-allowed, also when a route of lower precedence matches the
\* path and has the method, and when a mount covers the path: with POST
\* /users/me and GET /users/{id}, GET /users/me is not allowed (Allow: POST).
C22_MethodFromSelectedLeaf ==
  Served =>
    /\ LET m == matchRoute(root, req.path) IN
         (m.ok /\ DOMAIN m.leaf.handlers # {} /\ req.method \notin DOMAIN m.leaf.handlers)
         => AnsweredMethodNotAllowed
    /\ (Registered(POST, Input.PUsersMe) /\ ~Registered(GET, Input.PUsersMe)
        /\ req = [ method |-> GET, path |-> Input.PUsersMe ])
       => /\ AnsweredMethodNotAllowed
          /\ resp.allow = POST

\* POST /users/me, GET /users/{id} and a mount at /users are compiled, and
\* GET /users/me, which the parameter route and the mount both cover, was
\* answered method-not-allowed.
C22_Witness ==
  /\ Served
  /\ Registered(POST, Input.PUsersMe)
  /\ Registered(GET, Input.PUsersId)
  /\ Mounted(Input.PUsers)
  /\ req = [ method |-> GET, path |-> Input.PUsersMe ]
  /\ RouteMatches(GET, Input.PUsersMe)
  /\ UnderMount(Input.PUsersMe)
  /\ AnsweredMethodNotAllowed

\* The nodes of the radix tree under n, n included.
RECURSIVE RadixNodes(_)
RadixNodes(n) ==
  { n }
  \cup UNION { RadixNodes(n.staticEdges[i].next) : i \in 1..Len(n.staticEdges) }
  \cup (IF n.paramChild = NoEdge THEN {} ELSE RadixNodes(n.paramChild.next))
  \cup (IF n.catchAllChild = NoEdge THEN {} ELSE RadixNodes(n.catchAllChild.next))

\* An empty capture array.
NoCaptures == [ i \in 1..ParamCap |-> ZeroParam ]

\* What lies under the static edge of n for the byte at pos, when its label
\* is a prefix of the rest of the path.
UnderStaticEdge(n, path, pos, edge) ==
  IF edge # NoStaticEdge /\ HasPrefix(From(path, pos), edge.label)
    THEN matchPath(edge.next, path, pos + Len(edge.label), NoCaptures, 0)
    ELSE noMatch(NoCaptures)

\* What lies under the parameter edge of n for the segment sg at pos.
UnderParamValue(n, path, sg, pm) ==
  IF pm.ok
    THEN matchPath(n.paramChild.next, path, sg.nextPos,
                   [ NoCaptures EXCEPT ![1] = [ name |-> n.paramChild.name,
                                                value |-> pm.value ] ], 1)
    ELSE noMatch(NoCaptures)

UnderParamSegment(n, path, sg) ==
  IF sg.ok
    THEN UnderParamValue(n, path, sg,
           matchParamSegment(sg.seg, n.paramChild.prefix, n.paramChild.suffix,
                             n.paramChild.matcher))
    ELSE noMatch(NoCaptures)

UnderParamEdge(n, path, pos) ==
  IF n.paramChild # NoEdge THEN UnderParamSegment(n, path, nextSegmentAt(path, pos))
  ELSE noMatch(NoCaptures)

\* What the catch-all edge of n gives for the rest ca of the path.
UnderCatchAllRest(n, ca) ==
  IF ca.ok /\ matchParamSegment(ca.rest, n.catchAllChild.prefix, n.catchAllChild.suffix,
                                n.catchAllChild.matcher).ok
    THEN [ leaf |-> n.catchAllChild.next, count |-> 1, ok |-> TRUE, params |-> NoCaptures ]
    ELSE noMatch(NoCaptures)

UnderCatchAllEdge(n, path, pos) ==
  IF n.catchAllChild # NoEdge THEN UnderCatchAllRest(n, catchAllAt(path, pos))
  ELSE noMatch(NoCaptures)

\* m is the first of st, pa and ca that reached a leaf, and a failure when
\* none of them did.
FirstReached(m, st, pa, ca) ==
  /\ m.ok = (st.ok \/ pa.ok \/ ca.ok)
  /\ st.ok => (m.leaf = st.leaf /\ m.count = st.count)
  /\ (~st.ok /\ pa.ok) => (m.leaf = pa.leaf /\ m.count = pa.count)
  /\ (~st.ok /\ ~pa.ok /\ ca.ok) => (m.leaf = ca.leaf /\ m.count = ca.count)

\* matchPath at the node n, before the end of the path, falls back from the
\* static edge to the parameter edge to the catch-all edge.
FallsBackAt(n, path) ==
  \A pos \in 0..(Len(path) - 1) :
    FirstReached(matchPath(n, path, pos, NoCaptures, 0),
                 UnderStaticEdge(n, path, pos, staticEdgeFor(n, At(path, pos))),
                 UnderParamEdge(n, path, pos),
                 UnderCatchAllEdge(n, path, pos))

\* C23: a static edge whose label is a prefix of the rest of the path but
\* under which no leaf is reached does not end the match: matchPath goes on
\* to the parameter edge of the same node, then to its catch-all edge, and
\* fails only when all three do.  With /a/b/c and /a/{x}/d compiled, /a/b/d
\* resolves to the second with x=b; so it does beside /a/b, whose edge is a
\* prefix of /a/b/d, and /a/b/f then resolves to /a/{rest...}.
C23_StaticFailureFallsBack ==
  compiled =>
    /\ \A n \in RadixNodes(root), path \in Vocabs[vocab].paths : FallsBackAt(n, path)
    /\ (Registered(GET, Input.PAXD)
        /\ (Registered(GET, Input.PABC) \/ Registered(GET, Input.PAB)))
       => Resolves(matchRoute(root, Input.UABD), GET, Input.PAXD,
                   << [ name |-> << "x" >>, value |-> << "b" >> ] >>)
    /\ (Registered(GET, Input.PAXD) /\ Registered(GET, Input.PAB)
        /\ Registered(GET, Input.PARest))
       => Resolves(matchRoute(root, Input.UABF), GET, Input.PARest,
                   << [ name |-> << "r", "e", "s", "t" >>, value |-> << "b", "/", "f" >> ] >>)

\* The static edge, taken alone, reaches no leaf for the path from pos on
\* at the node n, although its label is a prefix of the rest of the path.
StaticEdgeFailsAt(n, path, pos, edge) ==
  /\ edge # NoStaticEdge
  /\ HasPrefix(From(path, pos), edge.label)
  /\ ~UnderStaticEdge(n, path, pos, edge).ok

\* /a/b, /a/{x}/d and /a/{rest...} are compiled.  At the node after /a the
\* static edge /b is a prefix of the rest of /a/b/d and of /a/b/f and
\* reaches no leaf; /a/b/d is matched under the parameter edge, and /a/b/f,
\* for which the parameter edge fails too, by the catch-all edge.
C23_Witness ==
  /\ compiled
  /\ Registered(GET, Input.PAB)
  /\ Registered(GET, Input.PAXD)
  /\ Registered(GET, Input.PARest)
  /\ \E n \in RadixNodes(root) :
       /\ StaticEdgeFailsAt(n, Input.UABD, 2, staticEdgeFor(n, "/"))
       /\ UnderParamEdge(n, Input.UABD, 2).ok
       /\ StaticEdgeFailsAt(n, Input.UABF, 2, staticEdgeFor(n, "/"))
       /\ ~UnderParamEdge(n, Input.UABF, 2).ok
       /\ UnderCatchAllEdge(n, Input.UABF, 2).ok
  /\ matchRoute(root, Input.UABD).ok
  /\ matchRoute(root, Input.UABF).ok

\* The way from the node n to the leaf that matches the path from pos on,
\* edges tried in the order static, parameter, catch-all and a node without
\* capacity for one more capture not entered: [ok, leaf, caps], caps being
\* the parameter and catch-all edges on the way after those of caps, each
\* with the part of the path it took.
NoWay == [ ok |-> FALSE, leaf |-> NoNode, caps |-> << >> ]

FirstWay(st, pa, ca) == IF st.ok THEN st ELSE IF pa.ok THEN pa ELSE ca

RECURSIVE WayTo(_, _, _, _)

WayByStatic(path, pos, caps, edge) ==
  IF edge # NoStaticEdge /\ HasPrefix(From(path, pos), edge.label)
    THEN WayTo(edge.next, path, pos + Len(edge.label), caps)
    ELSE NoWay

WayByParamValue(n, path, caps, sg, pm) ==
  IF pm.ok
    THEN WayTo(n.paramChild.next, path, sg.nextPos,
               Append(caps, [ name |-> n.paramChild.name, value |-> pm.value ]))
    ELSE NoWay

WayByParamSegment(n, path, caps, sg) ==
  IF sg.ok
    THEN WayByParamValue(n, path, caps, sg,
           matchParamSegment(sg.seg, n.paramChild.prefix, n.paramChild.suffix,
                             n.paramChild.matcher))
    ELSE NoWay

WayByParam(n, path, pos, caps) ==
  IF n.paramChild # NoEdge /\ Len(caps) < ParamCap
    THEN WayByParamSegment(n, path, caps, nextSegmentAt(path, pos))
    ELSE NoWay

WayByCatchAllValue(n, caps, cm) ==
  IF cm.ok
    THEN [ ok |-> TRUE, leaf |-> n.catchAllChild.next,
           caps |-> Append(caps, [ name |-> n.catchAllChild.name, value |-> cm.value ]) ]
    ELSE NoWay

WayByCatchAllRest(n, caps, ca) ==
  IF ca.ok
    THEN WayByCatchAllValue(n, caps,
           matchParamSegment(ca.rest, n.catchAllChild.prefix, n.catchAllChild.suffix,
                             n.catchAllChild.matcher))
    ELSE NoWay

WayByCatchAll(n, path, pos, caps) ==
  IF n.catchAllChild # NoEdge /\ Len(caps) < ParamCap
    THEN WayByCatchAllRest(n, caps, catchAllAt(path, pos))
    ELSE NoWay

WayTo(n, path, pos, caps) ==
  IF pos = Len(path) THEN [ ok |-> TRUE, leaf |-> n, caps |-> caps ]
  ELSE FirstWay(WayByStatic(path, pos, caps, staticEdgeFor(n, At(path, pos))),
                WayByParam(n, path, pos, caps),
                WayByCatchAll(n, path, pos, caps))

\* The routeMatch m holds the leaf and the captures of the way w, and no
\* more: paramCount is the number of parameter and catch-all edges on w.
CapturesOfWay(m, w) ==
  /\ m.ok = w.ok
  /\ m.ok => /\ m.leaf = w.leaf
             /\ m.paramCount = Len(w.caps)
             /\ Captures(m) = w.caps

\* C24: the captures matchRoute returns are the parameter and catch-all
\* edges on the way from the root to the returned leaf, in that order, and
\* paramCount is their number; what a branch wrote that was tried and then
\* abandoned is not among the first paramCount entries.  The path "/"
\* returns the root with no capture.
C24_CapturesOfReturnedLeaf ==
  compiled =>
    \A path \in Vocabs[vocab].paths :
      IF path = << "/" >>
        THEN /\ matchRoute(root, path).leaf = root
             /\ matchRoute(root, path).paramCount = 0
        ELSE CapturesOfWay(matchRoute(root, path), WayTo(root, path, 0, << >>))

\* /a/{x}/d and /a/{rest...} are compiled.  For /a/b/f the parameter edge
\* takes b, nothing is reached under it, and matchRoute returns the
\* catch-all leaf with the one capture rest=b/f.
C24_Witness ==
  /\ compiled
  /\ Registered(GET, Input.PAXD)
  /\ Registered(GET, Input.PARest)
  /\ \E n \in RadixNodes(root) :
       /\ n.paramChild # NoEdge
       /\ matchParamSegment(nextSegmentAt(Input.UABF, 2).seg, n.paramChild.prefix,
                            n.paramChild.suffix, n.paramChild.matcher).value = << "b" >>
       /\ ~UnderParamEdge(n, Input.UABF, 2).ok
  /\ matchRoute(root, Input.UABF).ok
  /\ Captures(matchRoute(root, Input.UABF))
       = << [ name |-> << "r", "e", "s", "t" >>, value |-> << "b", "/", "f" >> ] >>

\* At the node n no static edge has an empty label, no two static edges
\* begin with the same byte, and staticEdgeIndex holds exactly the first
\* bytes of the edges, each leading to its edge.
StaticEdgesIndexed(n) ==
  /\ \A i \in 1..Len(n.staticEdges) : n.staticEdges[i].label # << >>
  /\ \A i, j \in 1..Len(n.staticEdges) :
       n.staticEdges[i].label[1] = n.staticEdges[j].label[1] => i = j
  /\ DOMAIN n.staticEdgeIndex = { n.staticEdges[i].label[1] : i \in 1..Len(n.staticEdges) }
  /\ \A i \in 1..Len(n.staticEdges) :
       staticEdgeFor(n, n.staticEdges[i].label[1]) = n.staticEdges[i]

\* C25: after buildRadix, at every node of the tree no static edge label is
\* empty and no two static edges begin with the same byte, so the index
\* sends each first byte to the one edge that can match it and every static
\* edge is reached through the index.
C25_StaticEdgesByFirstByte ==
  compiled => \A n \in RadixNodes(root) : StaticEdgesIndexed(n)

\* /users/mel and /users/meg are compiled: the node after /users/me has the
\* two static edges g and l, each found by its first byte.
C25_Witness ==
  /\ compiled
  /\ Registered(GET, Input.PUsersMel)
  /\ Registered(GET, Input.PUsersMeg)
  /\ \E n \in RadixNodes(root) :
       /\ Len(n.staticEdges) = 2
       /\ staticEdgeFor(n, "g") = n.staticEdges[1]
       /\ staticEdgeFor(n, "l") = n.staticEdges[2]
       /\ n.staticEdges[1].label = << "g" >>

\* The nodes of the validating trie under t, t included.
RECURSIVE TrieNodes(_)
TrieNodes(t) ==
  { t }
  \cup UNION { TrieNodes(t.staticChildren[seg]) : seg \in DOMAIN t.staticChildren }
  \cup (IF t.paramChild = NoEdge THEN {} ELSE TrieNodes(t.paramChild.next))
  \cup (IF t.catchAllChild = NoEdge THEN {} ELSE TrieNodes(t.catchAllChild.next))

\* What a parameter or catch-all edge matches with, apart from where it
\* leads.
ParamEdgeOf(pe) ==
  [ name |-> pe.name, prefix |-> pe.prefix, suffix |-> pe.suffix, matcher |-> pe.matcher ]

CatchAllEdgeOf(pe) == [ name |-> pe.name, matcher |-> pe.matcher ]

\* The nodes among ns that hold handlers, a mount, a parameter edge, a
\* catch-all edge.
WithHandlers(ns) == { n \in ns : n.handlers # NoHandlers }

WithMount(ns) == { n \in ns : n.mount # NoHandler }

WithParamChild(ns) == { n \in ns : n.paramChild # NoEdge }

WithCatchAllChild(ns) == { n \in ns : n.catchAllChild # NoEdge }

\* The radix nodes rs hold what the trie nodes ts hold, node for node: as
\* many nodes hold handlers, and the same handlers; likewise for mounts,
\* parameter edges and catch-all edges.  (Two nodes of a trie, and of a
\* tree, differ, for each has a handler or a mount of its own below it.)
HoldsNodeForNode(ts, rs) ==
  /\ Cardinality(WithHandlers(rs)) = Cardinality(WithHandlers(ts))
  /\ { n.handlers : n \in WithHandlers(rs) } = { n.handlers : n \in WithHandlers(ts) }
  /\ Cardinality(WithMount(rs)) = Cardinality(WithMount(ts))
  /\ { n.mount : n \in WithMount(rs) } = { n.mount : n \in WithMount(ts) }
  /\ Cardinality(WithParamChild(rs)) = Cardinality(WithParamChild(ts))
  /\ { ParamEdgeOf(n.paramChild) : n \in WithParamChild(rs) }
       = { ParamEdgeOf(n.paramChild) : n \in WithParamChild(ts) }
  /\ Cardinality(WithCatchAllChild(rs)) = Cardinality(WithCatchAllChild(ts))
  /\ { CatchAllEdgeOf(n.catchAllChild) : n \in WithCatchAllChild(rs) }
       = { CatchAllEdgeOf(n.catchAllChild) : n \in WithCatchAllChild(ts) }

\* The handlers of the nodes ns, whatever the method.
HandlersIn(ns) == UNION { { n.handlers[m] : m \in DOMAIN n.handlers } : n \in ns }

\* The nodes rs hold the handler of every registered route, under its
\* method, and the handler of every registered mount, and no other.
HoldsRegistrations(rs) ==
  /\ HandlersIn(rs) = { routes[i].handler : i \in 1..Len(routes) }
  /\ \A n \in rs : \A m \in DOMAIN n.handlers : n.handlers[m].method = m
  /\ { n.mount : n \in WithMount(rs) } = { mounts[i].handler : i \in 1..Len(mounts) }

\* C26: buildRadix merges no two nodes of the trie that both hold handlers,
\* both a mount, both a parameter edge or both a catch-all edge, so the
\* compacted tree holds, node for node, what the trie of the successful
\* insertions holds: every registered handler and every mount is in it.
C26_CompactionDropsNothing ==
  compiled =>
    /\ HoldsNodeForNode(TrieNodes(compileTrie(routes, mounts).root), RadixNodes(root))
    /\ HoldsRegistrations(RadixNodes(root))

\* /a/b and /a/bc are compiled: whichever of the edges /a/b and /a/bc was
\* inserted first (the second is merged into the node split off the first,
\* or put below it), the node of /a/b holds its handler and the edge c to
\* the node that holds the handler of /a/bc.
C26_Witness ==
  /\ compiled
  /\ Len(routes) = 2
  /\ Registered(GET, Input.PAB)
  /\ Registered(GET, Input.UABc)
  /\ \E n \in RadixNodes(root) :
       /\ n.handlers = (GET :> RouteHandler(GET, Input.PAB))
       /\ Len(n.staticEdges) = 1
       /\ n.staticEdges[1].label = << "c" >>
       /\ n.staticEdges[1].next.handlers = (GET :> RouteHandler(GET, Input.UABc))
  /\ Cardinality(WithHandlers(RadixNodes(root))) = 2

\* C27: route lookup is complete.  When some registered route for the
\* request's method has a pattern that matches the path segment by segment,
\* ServeHTTP neither looks for a mount nor answers not-found: it runs the
\* handler of a registered route for that method whose pattern matches the
\* path, or answers method-not-allowed.  A node without handlers reached by
\* static edges (/users/me with /users/mel, /users/meg and /users/{id})
\* hides no parameter or catch-all route.
C27_LookupComplete ==
  (Served /\ RouteMatches(req.method, req.path))
  => \/ resp.kind = "methodNotAllowed"
     \/ /\ resp.kind = "route"
        /\ \E i \in 1..Len(routes) :
             /\ routes[i].method = req.method
             /\ resp.handler = routes[i].handler
             /\ PatternMatches(routes[i].pattern, req.path)

\* Every segment of the compiled pattern is static, a single parameter
\* (with or without text around it) or a catch-all.
SingleParamSegments(cp) ==
  /\ cp.err = NoErr
  /\ \A k \in 1..Len(cp.segments) :
       cp.segments[k].tmpl = NoTmpl \/ Len(cp.segments[k].tmpl.params) = 1

\* The names of the parameters and catch-alls of the segments.
CaptureNames(segments) ==
  { segments[k].name : k \in { j \in 1..Len(segments) : segments[j].kind # segmentStatic } }

\* The value is one the segment's parameter accepts.
Accepts(seg, value) == seg.matcher = NoMatcher \/ Match(seg.matcher, value)

\* rest, the path from a "/" on, is matched by the pattern's segments from
\* the i-th on, one "/"-bounded part of the path to each: a static segment
\* equals its part, a parameter's part is its prefix, its value and its
\* suffix, and a catch-all's value is all that follows the "/".
RECURSIVE MatchesBySegment(_, _, _, _)
MatchesBySegment(segments, i, rest, values) ==
  IF i > Len(segments) THEN rest = << >>
  ELSE
    /\ rest # << >>
    /\ Head(rest) = "/"
    /\ LET k    == IndexByte(Tail(rest), "/")
           part == IF k < 0 THEN Tail(rest) ELSE SubSeq(Tail(rest), 1, k)
           next == IF k < 0 THEN << >> ELSE SubSeq(Tail(rest), k + 1, Len(rest) - 1)
       IN  IF segments[i].kind = segmentStatic
             THEN /\ part = segments[i].literal
                  /\ MatchesBySegment(segments, i + 1, next, values)
           ELSE IF segments[i].kind = segmentCatchAll
             THEN /\ values[segments[i].name] = Tail(rest)
                  /\ Accepts(segments[i], Tail(rest))
           ELSE /\ part = segments[i].prefix \o values[segments[i].name] \o segments[i].suffix
                /\ Accepts(segments[i], values[segments[i].name])
                /\ MatchesBySegment(segments, i + 1, next, values)

\* The path matches the compiled pattern cp segment by segment with exactly
\* these path values; the root pattern "/" matches the path "/" alone.
SoundlyMatched(cp, path, values) ==
  /\ DOMAIN values = CaptureNames(cp.segments)
  /\ IF cp.segments = << >> THEN path = << "/" >>
     ELSE MatchesBySegment(cp.segments, 1, path, values)

\* C28: route lookup is sound.  Whenever ServeHTTP runs the handler
\* registered for (M, pattern), each segment of the pattern being static, a
\* single parameter or a catch-all, the request's method is M, its path
\* matches the pattern segment by segment, static text compared exactly
\* and parameters bounded by "/", and every path value is the part of the
\* path its parameter stands for.
C28_LookupSound ==
  (Served /\ resp.kind = "route"
          /\ SingleParamSegments(compilePattern(resp.handler.route)))
  => /\ Registered(resp.handler.method, resp.handler.route)
     /\ req.method = resp.handler.method
     /\ SoundlyMatched(compilePattern(resp.handler.route), req.path, resp.pathValues)

\* /users/meg and /users/{id} are compiled, and GET /users/mel, whose text
\* differs from the static route in its last byte, ran the parameter
\* route's handler with id=mel.
C28_Witness ==
  /\ Served
  /\ Registered(GET, Input.PUsersMeg)
  /\ ~Registered(GET, Input.PUsersMel)
  /\ req = [ method |-> GET, path |-> Input.PUsersMel ]
  /\ resp.kind = "route"
  /\ resp.handler = RouteHandler(GET, Input.PUsersId)
  /\ resp.pathValues = (<< "i", "d" >> :> << "m", "e", "l" >>)

\* The step is a call of Compile that returns an error.
CompileFailsStep == CompileStep /\ compileErr' # NoErr

\* A Compile that fails leaves the tree, the flag and the registrations as
\* they were, and its error is the one a Compile of the registrations it
\* left reports.
FailedCompileStep ==
  CompileFailsStep
  => /\ UNCHANGED << root, compiled, routes, mounts >>
     /\ compileTrie(routes', mounts').err = compileErr'

\* C29: a Compile call that returns an error changes nothing that serving
\* reads: the published root, the compiled flag and the registration lists
\* stay as they were before the call, so a later Compile of the same
\* registrations reports the same error.
C29_FailedCompileChangesNothing == [][FailedCompileStep]_vars

\* /users/{id} was compiled, /users/{id}.json was registered after it, and
\* the Compile that followed failed with the conflict: the tree is still
\* that of the first route alone.
C29_Witness ==
  /\ Len(routes) = 2
  /\ mounts = << >>
  /\ routes[1].pattern = Input.PUsersId
  /\ routes[2].pattern = Input.usersIdJson
  /\ compileErr = "route conflict: existing parameter"
  /\ ~compiled
  /\ root \in BuildRadix(compileTrie(SubSeq(routes, 1, 1), mounts).root)

====
